---- MODULE Spec2Model ----
(***************************************************************************)
(* Backtest simulation loop (runBacktest) and aggregate scoring engine     *)
(* (calculateAggregateScores) of src/services/geminiService.ts.            *)
(*                                                                         *)
(* JavaScript arrays are 0-based, TLA+ sequences 1-based: ticks[k] of the  *)
(* source is TickAt(k) here, and the loop index i keeps its 0-based value. *)
(* A JavaScript object used as a map (tickForecasts, persistentModelErrors *)
(* ...) is a sequence of <<key, value>> entries in insertion order, which  *)
(* is the order Object.entries enumerates.                                 *)
(***************************************************************************)
EXTENDS Integers, Sequences, FiniteSets, TLC

\* ---------------------------------------------------------------- bounds
MaxTicks == 5
MaxPredictionsBound == 3
MaxFeedbackLimit == 1
MaxNulls == 1
MaxScoreTicks == 6

\* ------------------------------------------------------ program constants
maxRetries == 3
PARTICIPATION_THRESHOLD == 80

NULL == -1

\* ------------------------------------------------------------ generic maps
Range(s) == {s[k] : k \in 1..Len(s)}

Keys(map) == {map[k][1] : k \in 1..Len(map)}

Has(map, key) == \E k \in 1..Len(map) : map[k][1] = key

Get(map, key) == map[CHOOSE k \in 1..Len(map) : map[k][1] = key][2]

\* obj[key] = value : an existing key keeps its position, a new one is appended
Put(map, key, value) ==
    IF Has(map, key)
    THEN [k \in 1..Len(map) |-> IF map[k][1] = key THEN <<key, value>> ELSE map[k]]
    ELSE Append(map, <<key, value>>)

RECURSIVE FlatMap(_, _)
FlatMap(F(_), s) == IF s = <<>> THEN <<>> ELSE F(Head(s)) \o FlatMap(F, Tail(s))

\* ------------------------------------------------------- forecaster ids
\* "provider::model" ; split('::') gives back the two segments
ForecasterId(provider, model) == [provider |-> provider, model |-> model]

SplitProvider(modelId) == modelId.provider

SplitModelName(modelId) == modelId.model

OpenRouter == "OpenRouter"
GoogleGemini == "Google Gemini"

\* a model identifier holding one of the substrings the retry classifier
\* looks for
Name500 == "acme/chat-500"
NameGpt == "openai/gpt"

IdA == ForecasterId(OpenRouter, NameGpt)
IdB == ForecasterId(OpenRouter, Name500)
IdC == ForecasterId(GoogleGemini, NameGpt)
IdJ == ForecasterId(OpenRouter, "judge")

EmptyString == ForecasterId("", "")

\* ------------------------------------------------------- error messages
\* A message is a sequence of tokens: "[name]" tags, blanks and text.
Tag(name) == [t |-> "tag", v |-> name]

Blank == [t |-> "blank", v |-> " "]

Txt(s) == [t |-> "txt", v |-> s]

TxtInvalidKey == "Invalid API Key provided for OpenRouter."
TxtRateLimit == "Rate limit hit for this model. Please retry shortly or check your OpenRouter account limits."
TxtStatus503 == "Model call failed. The provider returned status: 503. The model may be temporarily unavailable."
TxtMalformed == "Model returned malformed JSON."
TxtGeminiFailed == "Google Gemini API call failed: "
TxtKeyNotValid == "API key not valid. Please pass a valid API key."
TxtOverloaded == "The model is overloaded. Please try again later."
TxtEvaluationFailed == "Evaluation failed: "

\* callOpenRouter's failures, by response status
callOpenRouterError(kind, modelName) ==
    CASE kind = "401" -> <<Tag(modelName), Blank, Txt(TxtInvalidKey)>>
      [] kind = "429" -> <<Tag(modelName), Blank, Txt(TxtRateLimit)>>
      [] kind = "503" -> <<Tag(modelName), Blank, Txt(TxtStatus503)>>

\* callGoogleGemini's failures: the client library's message is wrapped
callGoogleGeminiError(kind, modelName) ==
    CASE kind = "401" -> <<Tag(modelName), Blank, Txt(TxtGeminiFailed), Txt(TxtKeyNotValid)>>
      [] kind = "429" -> <<Tag(modelName), Blank, Txt(TxtGeminiFailed), Txt(TxtOverloaded)>>
      [] kind = "503" -> <<Tag(modelName), Blank, Txt(TxtGeminiFailed), Txt(TxtOverloaded)>>

\* the error generateJsonContent rethrows for a model that has a key
AdapterError(kind, modelId) ==
    IF kind = "malformed" THEN <<Txt(TxtMalformed)>>
    ELSE IF SplitProvider(modelId) = OpenRouter
    THEN callOpenRouterError(kind, SplitModelName(modelId))
    ELSE callGoogleGeminiError(kind, SplitModelName(modelId))

ErrorKinds == {"401", "429", "malformed"}

JudgeErrorKinds == {"503"}

\* generateJsonContent without a key for the provider
MissingKeyError(provider) ==
    <<Txt("API key for"), Blank, Txt(provider), Blank, Txt("is not configured.")>>

\* the pieces of text in which toLowerCase().includes(...) finds "rate limit",
\* "500", "502", "503", "504" or "overloaded"
RetrySignatureBearers == {Name500, TxtRateLimit, TxtStatus503, TxtOverloaded}

isRetryable(errorMessage) ==
    \E k \in 1..Len(errorMessage) : errorMessage[k].v \in RetrySignatureBearers

\* String.replace(pattern, '') with a string pattern: the first occurrence
RECURSIVE RemoveFirst(_, _)
RemoveFirst(msg, tok) ==
    IF msg = <<>> THEN <<>>
    ELSE IF Head(msg) = tok THEN Tail(msg)
    ELSE <<Head(msg)>> \o RemoveFirst(Tail(msg), tok)

RECURSIVE TrimLeft(_)
TrimLeft(msg) ==
    IF msg # <<>> /\ Head(msg) = Blank THEN TrimLeft(Tail(msg)) ELSE msg

RECURSIVE TrimRight(_)
TrimRight(msg) ==
    IF msg # <<>> /\ msg[Len(msg)] = Blank
    THEN TrimRight(SubSeq(msg, 1, Len(msg) - 1)) ELSE msg

Trim(msg) == TrimRight(TrimLeft(msg))

\* JavaScript truthiness of a string
Truthy(msg) == msg # <<>>

\* Array.prototype.slice(-n): the last n elements; slice(-0) is slice(0), the
\* whole array
SliceLast(arr, n) ==
    IF n = 0 \/ n >= Len(arr) THEN arr
    ELSE SubSeq(arr, Len(arr) - n + 1, Len(arr))

\* --------------------------------------------------------------- inputs
\* the primary value of the k-th tick when it has one
BaseValue(k) ==
    CASE k = 0 -> 100
      [] k = 1 -> 110
      [] k = 2 -> 105
      [] k = 3 -> 105
      [] OTHER -> 120

\* Tick sequences, ascending by date; a primary value may be null anywhere
TickSequences ==
    {p \in UNION {[1..n -> {NULL, 0}] : n \in 1..MaxTicks} :
        Cardinality({k \in DOMAIN p : p[k] = NULL}) <= MaxNulls}

MakeTicks(pattern) ==
    [k \in 1..Len(pattern) |->
        [date |-> k - 1,
         value |-> IF pattern[k] = NULL THEN NULL ELSE BaseValue(k - 1)]]

\* config.llmSelections : provider -> model identifiers, in insertion order
LlmSelectionChoices ==
    { <<>>,
      << <<OpenRouter, <<Name500>>>> >>,
      << <<OpenRouter, <<NameGpt>>>>, <<GoogleGemini, <<NameGpt>>>> >> }

ApiKeyChoices == { {OpenRouter, GoogleGemini}, {GoogleGemini} }

\* What a model answers when its call succeeds. A model is taken to answer a
\* given prompt in one way: the answer differs from forecaster to forecaster
\* and from tick to tick, so that an answer stored under another forecaster or
\* tick is told apart. Confidences are in hundredths; the adapters return the
\* parsed answer as it is, and the Gemini forecaster answers the prompts of the
\* odd ticks with a confidence on the percent scale (60 for 0.6).
ForecastResults(modelId, idx) ==
    { [prediction |-> BaseValue(idx) + (IF SplitProvider(modelId) = OpenRouter THEN 5 ELSE 8),
       confidence |-> IF SplitProvider(modelId) = OpenRouter THEN 80
                      ELSE IF idx % 2 = 1 THEN 6000 ELSE 60] }

\* a parsed judge answer; the error field is <<e>> when it is a number and
\* <<>> when the answer has no numeric error field
JudgeResults(modelId, idx) ==
    { [accuracy |-> 90, error |-> <<5 + idx>>,
       feedback |-> [text |-> "fb-ok", model |-> modelId, tick |-> idx]],
      [accuracy |-> 90, error |-> <<>>,
       feedback |-> [text |-> "fb-noerr", model |-> modelId, tick |-> idx]] }

\* ---------------------------------------------------------------- state
VARIABLES
    config,                  \* runBacktest's config argument
    ticks,                   \* runBacktest's ticks argument
    apiKeys,                 \* providers that have a key in apiKeys
    pc,                      \* "start" | "forecast" | "evaluate" | "done" | "thrown";
                             \* "score" | "scored" | "rescored" for the scoring engine alone
    i,                       \* loop index
    fcall,                   \* forecastPromises of the current tick, per forecaster;
                             \* attempts and calls (the invocations made so far) are
                             \* locals of getForecastWithRetries and end with it
    jcall,                   \* evaluationPromises of the current tick, per forecaster
    tickForecasts,
    tickEvaluations,
    modelFeedbackHistory,
    modelPerformanceHistory,
    persistentModelErrors,
    tickResults,
    results                  \* <<>> while running, <<BacktestResults>> or <<error>> after

vars == <<config, ticks, apiKeys, pc, i, fcall, jcall, tickForecasts,
          tickEvaluations, modelFeedbackHistory, modelPerformanceHistory,
          persistentModelErrors, tickResults, results>>

\* ticks[k] of the source
TickAt(k) == ticks[k + 1]

SelectionIds(entry) ==
    [k \in 1..Len(entry[2]) |-> ForecasterId(entry[1], entry[2][k])]

forecasterModels == FlatMap(SelectionIds, config.llmSelections)

ModelSet == Range(forecasterModels)

\* maxTicksToProcess without the cap of maxPredictions
maxTicksToProcess_WholeLength == Len(ticks) - 1

maxTicksToProcess ==
    IF Len(ticks) - 1 < config.simulationOptions.maxPredictions
    THEN Len(ticks) - 1
    ELSE config.simulationOptions.maxPredictions

NoCall ==
    [status |-> "none", attempts |-> 0, calls |-> 0, value |-> <<>>,
     reason |-> <<>>, pastFeedback |-> <<>>, tick |-> -1]

NoJudgeCall ==
    [status |-> "none", calls |-> 0, value |-> <<>>, reason |-> <<>>,
     pastPerformance |-> <<>>, tick |-> -1]

Init ==
    /\ \E pattern \in TickSequences : ticks = MakeTicks(pattern)
    /\ \E sel \in LlmSelectionChoices, judge \in {EmptyString, IdJ},
          fl \in 0..MaxFeedbackLimit, mp \in 1..MaxPredictionsBound :
          config = [llmSelections |-> sel, judgeModel |-> judge,
                    feedbackLimit |-> fl,
                    simulationOptions |-> [maxPredictions |-> mp]]
    /\ apiKeys \in ApiKeyChoices
    /\ pc = "start"
    /\ i = 0
    /\ fcall = [m \in ModelSet |-> NoCall]
    /\ jcall = [m \in ModelSet |-> NoJudgeCall]
    /\ tickForecasts = <<>>
    /\ tickEvaluations = <<>>
    /\ modelFeedbackHistory = <<>>
    /\ modelPerformanceHistory = <<>>
    /\ persistentModelErrors = <<>>
    /\ tickResults = <<>>
    /\ results = <<>>

\* ------------------------------------------------------ scoring engine
Ratio(num, den) == [num |-> num, den |-> den]

\* r < x for a ratio with a positive denominator
RatioLess(r, x) == r.num < x * r.den

\* over a common denominator when the two already share one
AddRatio(a, b) ==
    IF a.den = b.den THEN Ratio(a.num + b.num, a.den)
    ELSE IF b.num = 0 THEN a
    ELSE IF a.num = 0 THEN b
    ELSE Ratio(a.num * b.den + b.num * a.den, a.den * b.den)

RECURSIVE SumRatios(_)
SumRatios(s) ==
    IF s = <<>> THEN Ratio(0, 1) ELSE AddRatio(Head(s), SumRatios(Tail(s)))

\* avg without the division by the length
avg_Sum(arr) == SumRatios(arr)

\* avg: the mean of a non-empty list, 0 for an empty one
avg(arr) ==
    IF Len(arr) > 0
    THEN Ratio(SumRatios(arr).num, SumRatios(arr).den * Len(arr))
    ELSE Ratio(0, 1)

RECURSIVE SumSeq(_)
SumSeq(s) == IF s = <<>> THEN 0 ELSE Head(s) + SumSeq(Tail(s))

Sign(x) == IF x > 0 THEN 1 ELSE IF x < 0 THEN -1 ELSE 0

\* errors[modelName] || fallback
ErrorMessageFor(errors, modelName, fallback) ==
    IF Has(errors, modelName) /\ Truthy(Get(errors, modelName))
    THEN Get(errors, modelName)
    ELSE <<Txt(fallback)>>

\* the empty report as it is declared, without the excluded models
EmptyResultsFor_NoExcluded(ticksArg, allAttemptedModels, errors) ==
    [compositeScore |-> Ratio(0, 1),
     overallDirectionalAccuracy |-> Ratio(0, 1),
     overallMagnitudeRmse |-> Ratio(0, 1),
     overallAvgConfidence |-> Ratio(0, 1),
     topPerformers |-> <<>>,
     excludedModels |-> <<>>]

\* the tickResults.length === 0 branch
EmptyResultsFor(ticksArg, allAttemptedModels, errors) ==
    [compositeScore |-> Ratio(0, 1),
     overallDirectionalAccuracy |-> Ratio(0, 1),
     overallMagnitudeRmse |-> Ratio(0, 1),
     overallAvgConfidence |-> Ratio(0, 1),
     topPerformers |-> <<>>,
     excludedModels |->
        [k \in 1..Len(allAttemptedModels) |->
            [modelId |-> allAttemptedModels[k],
             modelName |-> SplitModelName(allAttemptedModels[k]),
             provider |-> SplitProvider(allAttemptedModels[k]),
             reason |-> "Failed",
             message |-> ErrorMessageFor(errors, SplitModelName(allAttemptedModels[k]),
                                         "No successful predictions were generated."),
             predictions |-> 0,
             totalTicks |-> Len(ticksArg) - 1]]]

\* UsablePosition without the test of the previous actual
UsablePosition_NextOnly(ticksArg, k) ==
    /\ k + 2 <= Len(ticksArg)
    /\ ticksArg[k + 2].value # NULL

\* the loop over tickResults: position k (0-based) reads ticks[k] and ticks[k+1]
UsablePosition(ticksArg, k) ==
    /\ ticksArg[k + 1].value # NULL
    /\ k + 2 <= Len(ticksArg)
    /\ ticksArg[k + 2].value # NULL

RECURSIVE StatsFrom(_, _, _, _)
StatsFrom(ticksArg, trs, modelId, k) ==
    IF k >= Len(trs) THEN <<>>
    ELSE (IF UsablePosition(ticksArg, k) /\ Has(trs[k + 1].forecasts, modelId)
          THEN << [prediction |-> Get(trs[k + 1].forecasts, modelId).prediction,
                   confidence |-> Get(trs[k + 1].forecasts, modelId).confidence,
                   actual |-> ticksArg[k + 2].value,
                   prevActual |-> ticksArg[k + 1].value] >>
          ELSE <<>>)
         \o StatsFrom(ticksArg, trs, modelId, k + 1)

statsByModel(ticksArg, trs, modelId) == StatsFrom(ticksArg, trs, modelId, 0)

\* Outcome that counts a flat prediction of a flat actual as wrong
Outcome_FlatWrong(sample) ==
    IF /\ Sign(sample.prediction - sample.prevActual) = Sign(sample.actual - sample.prevActual)
       /\ Sign(sample.actual - sample.prevActual) # 0
    THEN 1 ELSE 0

Outcome(sample) ==
    IF Sign(sample.prediction - sample.prevActual) = Sign(sample.actual - sample.prevActual)
    THEN 1 ELSE 0

SquaredError(sample) ==
    (sample.actual - sample.prediction) * (sample.actual - sample.prediction)

\* confidences are kept in hundredths, so this is the Brier term times 10^4
BrierTerm(sample) ==
    (sample.confidence - 100 * Outcome(sample)) * (sample.confidence - 100 * Outcome(sample))

MapSeq(F(_), s) == [k \in 1..Len(s) |-> F(s[k])]

SampleConfidence(sample) == sample.confidence

SampleActual(sample) == sample.actual

\* Math.min(...) and Math.max(...) of a non-empty set of numbers
MinOf(S) == CHOOSE x \in S : \A y \in S : x <= y

MaxOf(S) == CHOOSE x \in S : \A y \in S : x >= y

\* maxActual - minActual over the actuals of every model's samples; without
\* any sample the source gets -Infinity, written here as -1 (it is only
\* compared with 0)
actualsRange(ticksArg, trs, allAttemptedModels) ==
    LET allActualValues ==
            UNION { Range(MapSeq(SampleActual, statsByModel(ticksArg, trs, allAttemptedModels[k]))) :
                    k \in 1..Len(allAttemptedModels) }
    IN  IF allActualValues = {} THEN -1
        ELSE MaxOf(allActualValues) - MinOf(allActualValues)

\* Math.sqrt, rounded down to a whole number: the root lies in lo..hi-1
RECURSIVE SqrtUpper(_, _)
SqrtUpper(x, hi) == IF hi * hi > x THEN hi ELSE SqrtUpper(x, 2 * hi)

RECURSIVE SqrtBetween(_, _, _)
SqrtBetween(x, lo, hi) ==
    IF hi - lo <= 1 THEN lo
    ELSE IF ((lo + hi) \div 2) * ((lo + hi) \div 2) <= x
         THEN SqrtBetween(x, (lo + hi) \div 2, hi)
         ELSE SqrtBetween(x, lo, (lo + hi) \div 2)

Sqrt(x) == SqrtBetween(x, 0, SqrtUpper(x, 1))

\* rmse in hundredths, rounded down (the source keeps a double)
rmse(squaredErrorSum, n) ==
    IF n = 0 THEN Ratio(0, 0)
    ELSE Ratio(Sqrt((squaredErrorSum * 10000) \div n), 100)

\* normRmse in thousandths
normRmse(rmseValue, range) ==
    IF range > 0
    THEN 1000 - (IF (rmseValue.num * 10) \div range < 1000
                 THEN (rmseValue.num * 10) \div range ELSE 1000)
    ELSE 0

\* the weights of the composite score, in tenths
WeightDirAcc == 4
WeightRmse == 3
WeightConfidence == 2
WeightBrier == 1

\* compositeScore in thousandths, rounded down; confidenceSum is in hundredths
\* and brierScoreSum in ten-thousandths
compositeScore(correctDirections, confidenceSum, brierScoreSum, rmseValue, range, n) ==
    IF n = 0 THEN Ratio(0, 0)
    ELSE Ratio((10000 * WeightDirAcc * correctDirections
                  + 100 * WeightConfidence * confidenceSum
                  - WeightBrier * brierScoreSum) \div n
               + 10 * WeightRmse * normRmse(rmseValue, range)
               + 10000 * WeightBrier,
               1000)

\* Benchmark with the completion rate taken over the ticks to process
Benchmark_ProcessedDenominator(modelId, stats, totalPossibleTicks, range) ==
    [modelId |-> modelId,
     modelName |-> SplitModelName(modelId),
     provider |-> SplitProvider(modelId),
     completionRate |-> Ratio(Len(stats) * 100, maxTicksToProcess),
     directionalAccuracy |-> Ratio(SumSeq(MapSeq(Outcome, stats)) * 100, Len(stats)),
     rmse |-> rmse(SumSeq(MapSeq(SquaredError, stats)), Len(stats)),
     brierScore |-> Ratio(SumSeq(MapSeq(BrierTerm, stats)), Len(stats) * 10000),
     avgConfidence |-> Ratio(SumSeq(MapSeq(SampleConfidence, stats)), Len(stats)),
     compositeScore |-> compositeScore(SumSeq(MapSeq(Outcome, stats)),
                                       SumSeq(MapSeq(SampleConfidence, stats)),
                                       SumSeq(MapSeq(BrierTerm, stats)),
                                       rmse(SumSeq(MapSeq(SquaredError, stats)), Len(stats)),
                                       range, Len(stats)),
     predictions |-> Len(stats)]

Benchmark(modelId, stats, totalPossibleTicks, range) ==
    [modelId |-> modelId,
     modelName |-> SplitModelName(modelId),
     provider |-> SplitProvider(modelId),
     completionRate |-> Ratio(Len(stats) * 100, totalPossibleTicks),
     directionalAccuracy |-> Ratio(SumSeq(MapSeq(Outcome, stats)) * 100, Len(stats)),
     rmse |-> rmse(SumSeq(MapSeq(SquaredError, stats)), Len(stats)),
     brierScore |-> Ratio(SumSeq(MapSeq(BrierTerm, stats)), Len(stats) * 10000),
     avgConfidence |-> Ratio(SumSeq(MapSeq(SampleConfidence, stats)), Len(stats)),
     compositeScore |-> compositeScore(SumSeq(MapSeq(Outcome, stats)),
                                       SumSeq(MapSeq(SampleConfidence, stats)),
                                       SumSeq(MapSeq(BrierTerm, stats)),
                                       rmse(SumSeq(MapSeq(SquaredError, stats)), Len(stats)),
                                       range, Len(stats)),
     predictions |-> Len(stats)]

\* Benchmarks without the skip of models that have no sample
Benchmarks_NoZeroGuard(ticksArg, trs, models) ==
    [k \in 1..Len(models) |->
        Benchmark(models[k], statsByModel(ticksArg, trs, models[k]), Len(ticksArg) - 1,
                  actualsRange(ticksArg, trs, models))]

\* the loop over allAttemptedModels; range is actualsRange, computed before it
RECURSIVE BenchmarksFrom(_, _, _, _)
BenchmarksFrom(ticksArg, trs, models, range) ==
    IF models = <<>> THEN <<>>
    ELSE (IF Len(statsByModel(ticksArg, trs, Head(models))) = 0 THEN <<>>
          ELSE << Benchmark(Head(models), statsByModel(ticksArg, trs, Head(models)),
                            Len(ticksArg) - 1, range) >>)
         \o BenchmarksFrom(ticksArg, trs, Tail(models), range)

Benchmarks(ticksArg, trs, models) ==
    BenchmarksFrom(ticksArg, trs, models, actualsRange(ticksArg, trs, models))

\* the threshold test with the boundary on the excluding side
BelowThreshold_Inclusive(bench) ==
    bench.completionRate.num <= PARTICIPATION_THRESHOLD * bench.completionRate.den

BelowThreshold(bench) == RatioLess(bench.completionRate, PARTICIPATION_THRESHOLD)

MeetsThreshold(bench) == ~BelowThreshold(bench)

InsufficientCoverage(bench, totalPossibleTicks) ==
    [modelId |-> bench.modelId,
     modelName |-> bench.modelName,
     provider |-> bench.provider,
     completionRate |-> bench.completionRate,
     directionalAccuracy |-> bench.directionalAccuracy,
     rmse |-> bench.rmse,
     brierScore |-> bench.brierScore,
     avgConfidence |-> bench.avgConfidence,
     compositeScore |-> bench.compositeScore,
     predictions |-> bench.predictions,
     reason |-> "Insufficient Coverage",
     totalTicks |-> totalPossibleTicks]

\* FailedModels that lists only the models with a recorded error
RECURSIVE FailedModels_OnlyWithError(_, _, _, _)
FailedModels_OnlyWithError(models, benchmarked, errors, totalPossibleTicks) ==
    IF models = <<>> THEN <<>>
    ELSE (IF Head(models) \in benchmarked \/ ~Has(errors, SplitModelName(Head(models)))
          THEN <<>>
          ELSE << [modelId |-> Head(models),
                   modelName |-> SplitModelName(Head(models)),
                   provider |-> SplitProvider(Head(models)),
                   reason |-> "Failed",
                   message |-> ErrorMessageFor(errors, SplitModelName(Head(models)),
                                               "Model failed to produce any valid output."),
                   predictions |-> 0,
                   totalTicks |-> totalPossibleTicks] >>)
         \o FailedModels_OnlyWithError(Tail(models), benchmarked, errors, totalPossibleTicks)

RECURSIVE FailedModels(_, _, _, _)
FailedModels(models, benchmarked, errors, totalPossibleTicks) ==
    IF models = <<>> THEN <<>>
    ELSE (IF Head(models) \in benchmarked THEN <<>>
          ELSE << [modelId |-> Head(models),
                   modelName |-> SplitModelName(Head(models)),
                   provider |-> SplitProvider(Head(models)),
                   reason |-> "Failed",
                   message |-> ErrorMessageFor(errors, SplitModelName(Head(models)),
                                               "Model failed to produce any valid output."),
                   predictions |-> 0,
                   totalTicks |-> totalPossibleTicks] >>)
         \o FailedModels(Tail(models), benchmarked, errors, totalPossibleTicks)

BenchDirectionalAccuracy(bench) == bench.directionalAccuracy

BenchAvgConfidence(bench) == bench.avgConfidence

BenchRmse(bench) == bench.rmse

BenchCompositeScore(bench) == bench.compositeScore

\* the comparator with the operands the other way round
CompareComposite_Ascending(a, b) == a.compositeScore.num - b.compositeScore.num

\* the comparator (a, b) => b.compositeScore - a.compositeScore; the scores
\* share one denominator
CompareComposite(a, b) == b.compositeScore.num - a.compositeScore.num

\* Array.prototype.sort is stable: an element goes behind every element the
\* comparator does not put after it
RECURSIVE InsertSorted(_, _)
InsertSorted(x, sorted) ==
    IF sorted = <<>> THEN <<x>>
    ELSE IF CompareComposite(Head(sorted), x) <= 0
         THEN <<Head(sorted)>> \o InsertSorted(x, Tail(sorted))
         ELSE <<x>> \o sorted

RECURSIVE SortFrom(_, _)
SortFrom(sorted, rest) ==
    IF rest = <<>> THEN sorted
    ELSE SortFrom(InsertSorted(Head(rest), sorted), Tail(rest))

SortByCompositeScore(arr) == SortFrom(<<>>, arr)

\* rmse and compositeScore are kept in fixed point (see rmse, compositeScore)
calculateAggregateScores(ticksArg, trs, allAttemptedModels, errors) ==
    IF Len(trs) = 0 THEN EmptyResultsFor(ticksArg, allAttemptedModels, errors)
    ELSE
      LET totalPossibleTicks == Len(ticksArg) - 1
          benchmarks == Benchmarks(ticksArg, trs, allAttemptedModels)
          topPerformers == SortByCompositeScore(SelectSeq(benchmarks, MeetsThreshold))
          insufficient == SelectSeq(benchmarks, BelowThreshold)
          excludedModels ==
              [k \in 1..Len(insufficient) |->
                  InsufficientCoverage(insufficient[k], totalPossibleTicks)]
              \o FailedModels(allAttemptedModels,
                              {benchmarks[k].modelId : k \in 1..Len(benchmarks)},
                              errors, totalPossibleTicks)
      IN  [compositeScore |-> avg(MapSeq(BenchCompositeScore, topPerformers)),
           overallDirectionalAccuracy |-> avg(MapSeq(BenchDirectionalAccuracy, topPerformers)),
           overallMagnitudeRmse |-> avg(MapSeq(BenchRmse, topPerformers)),
           overallAvgConfidence |-> avg(MapSeq(BenchAvgConfidence, topPerformers)),
           topPerformers |-> topPerformers,
           excludedModels |-> excludedModels]

\* ------------------------------------------------------ simulation loop
\* the test `persistentModelErrors[modelId]` of a skip or of a first-error guard
HasPersistentError(errs, modelId) ==
    Has(errs, modelId) /\ Truthy(Get(errs, modelId))

\* the retry test with the bound off by one
ShouldRetry_OffByOne(errorMessage, attempts) ==
    isRetryable(errorMessage) /\ attempts < maxRetries

\* getForecastWithRetries' test before the backoff
ShouldRetry(errorMessage, attempts) ==
    isRetryable(errorMessage) /\ attempts < maxRetries - 1

\* IssueForecast without the skip of permanently failed forecasters
IssueForecast_NoSkip(modelId, idx, errs, feedbackHistory) ==
    IF SplitProvider(modelId) \notin apiKeys
    THEN [NoCall EXCEPT !.status = "rejected", !.tick = idx,
                        !.reason = MissingKeyError(SplitProvider(modelId)),
                        !.pastFeedback = SliceLast(feedbackHistory[modelId],
                                                   config.feedbackLimit)]
    ELSE [NoCall EXCEPT !.status = "inflight", !.calls = 1, !.tick = idx,
                        !.pastFeedback = SliceLast(feedbackHistory[modelId],
                                                   config.feedbackLimit)]

\* forecastPromises[modelId] as it stands when forecasterModels.map returns
IssueForecast(modelId, idx, errs, feedbackHistory) ==
    IF HasPersistentError(errs, modelId)
    THEN [NoCall EXCEPT !.status = "skipped", !.tick = idx]
    ELSE IF SplitProvider(modelId) \notin apiKeys
    THEN [NoCall EXCEPT !.status = "rejected", !.tick = idx,
                        !.reason = MissingKeyError(SplitProvider(modelId)),
                        !.pastFeedback = SliceLast(feedbackHistory[modelId],
                                                   config.feedbackLimit)]
    ELSE [NoCall EXCEPT !.status = "inflight", !.calls = 1, !.tick = idx,
                        !.pastFeedback = SliceLast(feedbackHistory[modelId],
                                                   config.feedbackLimit)]

\* Promise.all: every promise of the phase has settled
Settled(call) == call.status \in {"none", "skipped", "fulfilled", "rejected"}

\* Promise.race in place of Promise.all: one settled promise is enough
AllSettled_Race(calls) == \E m \in DOMAIN calls : Settled(calls[m])

AllSettled(calls) == \A m \in DOMAIN calls : Settled(calls[m])

\* Format error keys for display
RECURSIVE formattedErrors(_)
formattedErrors(errs) ==
    IF errs = <<>> THEN <<>>
    ELSE Put(formattedErrors(SubSeq(errs, 1, Len(errs) - 1)),
             SplitModelName(errs[Len(errs)][1]), errs[Len(errs)][2])

\* leaving the loop: the report is computed and runBacktest returns
Finish(idx, errs, trs, tf, te, fc, jc) ==
    /\ pc' = "done"
    /\ i' = idx
    /\ persistentModelErrors' = errs
    /\ tickResults' = trs
    /\ tickForecasts' = tf
    /\ tickEvaluations' = te
    /\ fcall' = fc
    /\ jcall' = jc
    /\ results' = << calculateAggregateScores(ticks, trs, forecasterModels,
                                              formattedErrors(errs)) >>

\* the head of the for loop and, when the body is entered, the forecast step
\* up to `await Promise.all(forecastPromises)`
EnterTick(idx, errs, feedbackHistory, trs, tf, te, fc, jc) ==
    IF idx < maxTicksToProcess /\ idx + 2 <= Len(ticks)
    THEN /\ pc' = "forecast"
         /\ i' = idx
         /\ persistentModelErrors' = errs
         /\ tickResults' = trs
         /\ tickForecasts' = <<>>
         /\ tickEvaluations' = <<>>
         /\ fcall' = [m \in ModelSet |-> IssueForecast(m, idx, errs, feedbackHistory)]
         /\ jcall' = [m \in ModelSet |-> NoJudgeCall]
         /\ results' = <<>>
    ELSE Finish(idx, errs, trs, tf, te, fc, jc)

Throw(message) ==
    /\ pc' = "thrown"
    /\ results' = << [error |-> message] >>

\* Start without the test of ticks.length
Start_NoTickCheck ==
    /\ pc = "start"
    /\ UNCHANGED <<config, ticks, apiKeys>>
    /\ IF config.judgeModel = EmptyString
       THEN /\ Throw("A judge model must be selected to run a backtest.")
            /\ UNCHANGED <<i, fcall, jcall, tickForecasts, tickEvaluations,
                           modelFeedbackHistory, modelPerformanceHistory,
                           persistentModelErrors, tickResults>>
       ELSE IF Len(forecasterModels) = 0
       THEN /\ Throw("At least one forecaster model must be selected.")
            /\ UNCHANGED <<i, fcall, jcall, tickForecasts, tickEvaluations,
                           modelFeedbackHistory, modelPerformanceHistory,
                           persistentModelErrors, tickResults>>
       ELSE /\ modelFeedbackHistory' = [m \in ModelSet |-> <<>>]
            /\ modelPerformanceHistory' = [m \in ModelSet |-> <<>>]
            /\ EnterTick(0, <<>>, [m \in ModelSet |-> <<>>], <<>>, <<>>, <<>>,
                         fcall, jcall)

\* runBacktest up to the first await
Start ==
    /\ pc = "start"
    /\ UNCHANGED <<config, ticks, apiKeys>>
    /\ IF config.judgeModel = EmptyString
       THEN /\ Throw("A judge model must be selected to run a backtest.")
            /\ UNCHANGED <<i, fcall, jcall, tickForecasts, tickEvaluations,
                           modelFeedbackHistory, modelPerformanceHistory,
                           persistentModelErrors, tickResults>>
       ELSE IF Len(forecasterModels) = 0
       THEN /\ Throw("At least one forecaster model must be selected.")
            /\ UNCHANGED <<i, fcall, jcall, tickForecasts, tickEvaluations,
                           modelFeedbackHistory, modelPerformanceHistory,
                           persistentModelErrors, tickResults>>
       ELSE IF Len(ticks) < 2
       THEN /\ Throw("At least two data ticks are required to run a backtest.")
            /\ UNCHANGED <<i, fcall, jcall, tickForecasts, tickEvaluations,
                           modelFeedbackHistory, modelPerformanceHistory,
                           persistentModelErrors, tickResults>>
       ELSE /\ modelFeedbackHistory' = [m \in ModelSet |-> <<>>]
            /\ modelPerformanceHistory' = [m \in ModelSet |-> <<>>]
            /\ EnterTick(0, <<>>, [m \in ModelSet |-> <<>>], <<>>, <<>>, <<>>,
                         fcall, jcall)

\* generateJsonContent resolves inside getForecastWithRetries
ForecastFulfil(m) ==
    /\ pc = "forecast"
    /\ fcall[m].status = "inflight"
    /\ \E v \in ForecastResults(m, i) :
          fcall' = [fcall EXCEPT ![m].status = "fulfilled", ![m].value = <<v>>,
                                 ![m].attempts = 0, ![m].calls = 0]
    /\ UNCHANGED <<config, ticks, apiKeys, pc, i, jcall, tickForecasts,
                   tickEvaluations, modelFeedbackHistory, modelPerformanceHistory,
                   persistentModelErrors, tickResults, results>>

\* generateJsonContent rejects inside getForecastWithRetries: backoff or rethrow
ForecastFail(m) ==
    /\ pc = "forecast"
    /\ fcall[m].status = "inflight"
    /\ \E kind \in ErrorKinds :
          fcall' = IF ShouldRetry(AdapterError(kind, m), fcall[m].attempts)
                   THEN [fcall EXCEPT ![m].status = "sleeping",
                                      ![m].reason = AdapterError(kind, m),
                                      ![m].attempts = fcall[m].attempts + 1]
                   ELSE [fcall EXCEPT ![m].status = "rejected",
                                      ![m].reason = AdapterError(kind, m),
                                      ![m].attempts = 0, ![m].calls = 0]
    /\ UNCHANGED <<config, ticks, apiKeys, pc, i, jcall, tickForecasts,
                   tickEvaluations, modelFeedbackHistory, modelPerformanceHistory,
                   persistentModelErrors, tickResults, results>>

\* sleep(delay) elapses and the while loop calls generateJsonContent again
BackoffElapsed(m) ==
    /\ pc = "forecast"
    /\ fcall[m].status = "sleeping"
    /\ fcall' = IF fcall[m].attempts < maxRetries
                THEN [fcall EXCEPT ![m].status = "inflight", ![m].reason = <<>>,
                                   ![m].calls = fcall[m].calls + 1]
                ELSE [fcall EXCEPT ![m].status = "rejected",
                                   ![m].reason = <<Txt("Max retries exceeded for"), Blank,
                                                    Txt(SplitProvider(m)), Txt("::"),
                                                    Txt(SplitModelName(m))>>,
                                   ![m].attempts = 0, ![m].calls = 0]
    /\ UNCHANGED <<config, ticks, apiKeys, pc, i, jcall, tickForecasts,
                   tickEvaluations, modelFeedbackHistory, modelPerformanceHistory,
                   persistentModelErrors, tickResults, results>>

\* Promise.all without the per-promise catch: one rejection loses the phase
CollectFulfilled_AllOrNothing(models, calls) ==
    IF \E k \in 1..Len(models) : calls[models[k]].status = "rejected"
    THEN <<>>
    ELSE [k \in 1..Len(models) |-> <<models[k], calls[models[k]].value[1]>>]

\* the loop over forecastSettledResults: the fulfilled ones, in order
RECURSIVE CollectFulfilled(_, _)
CollectFulfilled(models, calls) ==
    IF models = <<>> THEN <<>>
    ELSE (IF calls[Head(models)].status = "fulfilled"
          THEN << <<Head(models), calls[Head(models)].value[1]>> >>
          ELSE <<>>)
         \o CollectFulfilled(Tail(models), calls)

\* Record the first permanent error for the final report
RecordForecastError(errs, modelId, call) ==
    IF call.status = "rejected" /\ ~HasPersistentError(errs, modelId)
    THEN Put(errs, modelId, Trim(RemoveFirst(call.reason, Tag(SplitModelName(modelId)))))
    ELSE errs

RECURSIVE RecordForecastErrors(_, _, _)
RecordForecastErrors(models, calls, errs) ==
    IF models = <<>> THEN errs
    ELSE RecordForecastErrors(Tail(models), calls,
                              RecordForecastError(errs, Head(models), calls[Head(models)]))

\* the no-ground-truth test of the loop body
NoGroundTruth(idx) == TickAt(idx + 1).value = NULL

\* p.error.toFixed(2) on an entry whose error is not a number
buildJudgePromptThrows(pastPerformance) ==
    \E k \in 1..Len(pastPerformance) : pastPerformance[k].error = <<>>

\* evaluationPromises[modelId] as it stands when successfulForecasts.map returns
IssueJudge(modelId, idx, performanceHistory) ==
    IF SplitProvider(config.judgeModel) \notin apiKeys
    THEN [NoJudgeCall EXCEPT !.status = "rejected", !.tick = idx,
                             !.reason = MissingKeyError(SplitProvider(config.judgeModel)),
                             !.pastPerformance = SliceLast(performanceHistory[modelId],
                                                           config.feedbackLimit)]
    ELSE [NoJudgeCall EXCEPT !.status = "inflight", !.calls = 1, !.tick = idx,
                             !.pastPerformance = SliceLast(performanceHistory[modelId],
                                                           config.feedbackLimit)]

\* how many entries of successfulForecasts.map run before buildJudgePrompt throws
\* (all of them when none throws)
MappedBeforeThrow(successfulForecasts, performanceHistory) ==
    LET throwing == {k \in 1..Len(successfulForecasts) :
                        buildJudgePromptThrows(
                            SliceLast(performanceHistory[successfulForecasts[k][1]],
                                      config.feedbackLimit))}
    IN  IF throwing = {} THEN Len(successfulForecasts)
        ELSE (CHOOSE k \in throwing : \A j \in throwing : k <= j) - 1

\* Promise.all(forecastPromises) resolves: the forecasts are collected, then
\* either the loop is left or the judge calls are issued
ForecastBarrier ==
    /\ pc = "forecast"
    /\ AllSettled(fcall)
    /\ UNCHANGED <<config, ticks, apiKeys, modelFeedbackHistory, modelPerformanceHistory>>
    /\ LET forecasts == CollectFulfilled(forecasterModels, fcall)
           errs == RecordForecastErrors(forecasterModels, fcall, persistentModelErrors)
           mapped == MappedBeforeThrow(forecasts, modelPerformanceHistory)
       IN  IF NoGroundTruth(i)
           THEN Finish(i, errs, tickResults, forecasts, tickEvaluations,
                       [m \in ModelSet |-> NoCall], jcall)
           ELSE /\ i' = i
                /\ fcall' = [m \in ModelSet |-> NoCall]
                /\ persistentModelErrors' = errs
                /\ tickResults' = tickResults
                /\ tickForecasts' = forecasts
                /\ tickEvaluations' = tickEvaluations
                /\ jcall' = [m \in ModelSet |->
                                IF \E k \in 1..mapped : forecasts[k][1] = m
                                THEN IssueJudge(m, i, modelPerformanceHistory)
                                ELSE NoJudgeCall]
                /\ IF mapped < Len(forecasts)
                   THEN Throw("TypeError: p.error.toFixed is not a function")
                   ELSE pc' = "evaluate" /\ results' = <<>>

\* the judge's generateJsonContent resolves
JudgeFulfil(m) ==
    /\ pc = "evaluate"
    /\ jcall[m].status = "inflight"
    /\ \E v \in JudgeResults(m, i) :
          jcall' = [jcall EXCEPT ![m].status = "fulfilled", ![m].value = <<v>>,
                                 ![m].calls = 0]
    /\ UNCHANGED <<config, ticks, apiKeys, pc, i, fcall, tickForecasts,
                   tickEvaluations, modelFeedbackHistory, modelPerformanceHistory,
                   persistentModelErrors, tickResults, results>>

\* JudgeFail with a catch handler that marks the forecaster failed as soon as
\* its judge call rejects, before Promise.all(evaluationPromises) resolves
JudgeFail_RecordsAtOnce(m) ==
    /\ pc = "evaluate"
    /\ jcall[m].status = "inflight"
    /\ \E kind \in JudgeErrorKinds :
          LET call == [jcall[m] EXCEPT !.status = "rejected", !.calls = 0,
                                      !.reason = AdapterError(kind, config.judgeModel)]
          IN  /\ jcall' = [jcall EXCEPT ![m] = call]
              /\ persistentModelErrors' =
                     IF HasPersistentError(persistentModelErrors, m)
                     THEN persistentModelErrors
                     ELSE Put(persistentModelErrors, m,
                              <<Txt(TxtEvaluationFailed)>> \o call.reason)
    /\ UNCHANGED <<config, ticks, apiKeys, pc, i, fcall, tickForecasts,
                   tickEvaluations, modelFeedbackHistory, modelPerformanceHistory,
                   tickResults, results>>

\* the judge's generateJsonContent rejects; there is no retry
JudgeFail(m) ==
    /\ pc = "evaluate"
    /\ jcall[m].status = "inflight"
    /\ \E kind \in JudgeErrorKinds :
          jcall' = [jcall EXCEPT ![m].status = "rejected", ![m].calls = 0,
                                 ![m].reason = AdapterError(kind, config.judgeModel)]
    /\ UNCHANGED <<config, ticks, apiKeys, pc, i, fcall, tickForecasts,
                   tickEvaluations, modelFeedbackHistory, modelPerformanceHistory,
                   persistentModelErrors, tickResults, results>>

\* RecordEvaluationError that only logs the judge failure
RecordEvaluationError_LogOnly(errs, modelId, call) == errs

\* the judge failed for this model: mark it as a persistent error
RecordEvaluationError(errs, modelId, call) ==
    IF call.status = "rejected" /\ ~HasPersistentError(errs, modelId)
    THEN Put(errs, modelId, <<Txt(TxtEvaluationFailed)>> \o call.reason)
    ELSE errs

\* the loop over evaluationSettledResults, in the order of successfulForecasts
RECURSIVE RecordEvaluationErrors(_, _, _)
RecordEvaluationErrors(successfulForecasts, calls, errs) ==
    IF successfulForecasts = <<>> THEN errs
    ELSE RecordEvaluationErrors(Tail(successfulForecasts), calls,
             RecordEvaluationError(errs, Head(successfulForecasts)[1],
                                   calls[Head(successfulForecasts)[1]]))

CollectEvaluations(successfulForecasts, calls) ==
    CollectFulfilled([k \in 1..Len(successfulForecasts) |-> successfulForecasts[k][1]], calls)

\* PerformanceEntry with the prediction and the actual value exchanged
PerformanceEntry_Swapped(forecast, actualValue, judgeResult) ==
    [prediction |-> actualValue, actual |-> forecast.prediction, error |-> judgeResult.error]

\* the entry pushed to modelPerformanceHistory[modelId]
PerformanceEntry(forecast, actualValue, judgeResult) ==
    [prediction |-> forecast.prediction, actual |-> actualValue, error |-> judgeResult.error]

\* a tick result for every tick, evaluated or not
ShouldCommit_Always(evaluations) == TRUE

\* Only add a tick result if at least one model was forecasted and evaluated
ShouldCommit(evaluations) == Len(evaluations) > 0

\* TickResult numbered as the judge prompt numbers ticks (i + 1)
TickResult_OneBased(idx, forecasts, evaluations) ==
    [tickIndex |-> idx + 1, tickData |-> TickAt(idx),
     forecasts |-> forecasts, evaluations |-> evaluations]

TickResult(idx, forecasts, evaluations) ==
    [tickIndex |-> idx, tickData |-> TickAt(idx),
     forecasts |-> forecasts, evaluations |-> evaluations]

\* Promise.all(evaluationPromises) resolves: evaluations and histories are
\* recorded, the tick is committed, and the loop goes to its next index
EvalBarrier ==
    /\ pc = "evaluate"
    /\ AllSettled(jcall)
    /\ UNCHANGED <<config, ticks, apiKeys>>
    /\ LET evaluations == CollectEvaluations(tickForecasts, jcall)
           errs == RecordEvaluationErrors(tickForecasts, jcall, persistentModelErrors)
           feedbackHistory ==
               [m \in ModelSet |->
                   IF jcall[m].status = "fulfilled"
                   THEN Append(modelFeedbackHistory[m], jcall[m].value[1].feedback)
                   ELSE modelFeedbackHistory[m]]
           performanceHistory ==
               [m \in ModelSet |->
                   IF jcall[m].status = "fulfilled"
                   THEN Append(modelPerformanceHistory[m],
                               PerformanceEntry(Get(tickForecasts, m),
                                                TickAt(i + 1).value, jcall[m].value[1]))
                   ELSE modelPerformanceHistory[m]]
           trs == IF ShouldCommit(evaluations)
                  THEN Append(tickResults, TickResult(i, tickForecasts, evaluations))
                  ELSE tickResults
       IN  /\ modelFeedbackHistory' = feedbackHistory
           /\ modelPerformanceHistory' = performanceHistory
           /\ EnterTick(i + 1, errs, feedbackHistory, trs, tickForecasts, evaluations,
                        fcall, [m \in ModelSet |-> NoJudgeCall])

Next ==
    \/ Start
    \/ \E m \in ModelSet : ForecastFulfil(m)
    \/ \E m \in ModelSet : ForecastFail(m)
    \/ \E m \in ModelSet : BackoffElapsed(m)
    \/ ForecastBarrier
    \/ \E m \in ModelSet : JudgeFulfil(m)
    \/ \E m \in ModelSet : JudgeFail(m)
    \/ EvalBarrier

Spec == Init /\ [][Next]_vars

\* every forecaster id of the inputs
AllForecasterIds == {IdA, IdB, IdC}

\* The run under the scheduling the code can count on: the event loop runs
\* runBacktest's own continuations (after each Promise.all) and the backoff
\* timers of sleep(). Whether and when a model invocation settles is up to the
\* provider: fetch and generateContent are called without a timeout or an
\* abort signal, so the settling steps carry no fairness.
LiveSpec ==
    /\ Init /\ [][Next]_vars
    /\ WF_vars(Start)
    /\ WF_vars(ForecastBarrier)
    /\ WF_vars(EvalBarrier)
    /\ \A m \in AllForecasterIds : WF_vars(m \in ModelSet /\ BackoffElapsed(m))

\* ------------------------------------------- the scoring engine on its own
\* calculateAggregateScores applied to tick results that hold, at each
\* position, the forecasts of any non-empty set of the configured forecasters
ScoreTickSequences ==
    {p \in UNION {[1..n -> {NULL, 0}] : n \in 2..MaxScoreTicks} :
        Cardinality({k \in DOMAIN p : p[k] = NULL}) <= MaxNulls}

ForecastsOf(S, idx) ==
    LET sel == SelectSeq(forecasterModels, LAMBDA m : m \in S)
    IN  [k \in 1..Len(sel) |->
            <<sel[k], CHOOSE v \in ForecastResults(sel[k], idx) : TRUE>>]

EvaluationsOf(S, idx) ==
    LET sel == SelectSeq(forecasterModels, LAMBDA m : m \in S)
    IN  [k \in 1..Len(sel) |->
            <<sel[k], CHOOSE v \in JudgeResults(sel[k], idx) : v.error # <<>> >>]

ScoreErrorChoices ==
    { <<>>, << <<IdA, <<Txt(TxtInvalidKey)>> >> >> }

ScoreInit ==
    /\ \E pattern \in ScoreTickSequences : ticks = MakeTicks(pattern)
    /\ \E sel \in LlmSelectionChoices \ {<<>>} :
          config = [llmSelections |-> sel, judgeModel |-> IdJ, feedbackLimit |-> 0,
                    simulationOptions |-> [maxPredictions |-> MaxScoreTicks]]
    /\ apiKeys = {OpenRouter, GoogleGemini}
    /\ pc = "score"
    /\ i = 0
    /\ fcall = [m \in ModelSet |-> NoCall]
    /\ jcall = [m \in ModelSet |-> NoJudgeCall]
    /\ tickForecasts = <<>>
    /\ tickEvaluations = <<>>
    /\ modelFeedbackHistory = <<>>
    /\ modelPerformanceHistory = <<>>
    /\ persistentModelErrors \in ScoreErrorChoices
    /\ \E n \in 0..(Len(ticks) - 1) :
          \E choice \in [1..n -> SUBSET ModelSet \ {{}}] :
             tickResults = [k \in 1..n |->
                               [tickIndex |-> k - 1, tickData |-> ticks[k],
                                forecasts |-> ForecastsOf(choice[k], k - 1),
                                evaluations |-> EvaluationsOf(choice[k], k - 1)]]
    /\ results = <<>>

\* const results = calculateAggregateScores(ticks, tickResults, forecasterModels, formattedErrors)
ScoreStep ==
    /\ pc = "score"
    /\ pc' = "scored"
    /\ results' = << calculateAggregateScores(ticks, tickResults, forecasterModels,
                                              formattedErrors(persistentModelErrors)) >>
    /\ UNCHANGED <<config, ticks, apiKeys, i, fcall, jcall, tickForecasts,
                   tickEvaluations, modelFeedbackHistory, modelPerformanceHistory,
                   persistentModelErrors, tickResults>>

\* a call that empties its tickResults argument while it reads it
ScoreAgain_DrainsTickResults ==
    /\ pc = "scored"
    /\ pc' = "rescored"
    /\ results' = << calculateAggregateScores(ticks, tickResults, forecasterModels,
                                              formattedErrors(persistentModelErrors)) >>
    /\ tickResults' = <<>>
    /\ UNCHANGED <<config, ticks, apiKeys, i, fcall, jcall, tickForecasts,
                   tickEvaluations, modelFeedbackHistory, modelPerformanceHistory,
                   persistentModelErrors>>

\* a second call of calculateAggregateScores on the same arguments: the
\* function assigns to its own locals only (emptyResults, statsByModel,
\* benchmarks, topPerformers, excludedModels) and sorts its own array
ScoreAgain ==
    /\ pc = "scored"
    /\ pc' = "rescored"
    /\ results' = << calculateAggregateScores(ticks, tickResults, forecasterModels,
                                              formattedErrors(persistentModelErrors)) >>
    /\ UNCHANGED <<config, ticks, apiKeys, i, fcall, jcall, tickForecasts,
                   tickEvaluations, modelFeedbackHistory, modelPerformanceHistory,
                   persistentModelErrors, tickResults>>

ScoreNext == ScoreStep \/ ScoreAgain

ScoreSpec == ScoreInit /\ [][ScoreNext]_vars

\* ------------------------------------- the scoring engine on varied forecasts
\* calculateAggregateScores applied to tick results whose forecasts vary in
\* prediction and confidence, over ticks that all have a value
MaxMetricTicks == 4

MetricTickSequences == UNION {[1..n -> {0}] : n \in 2..MaxMetricTicks}

\* what a forecaster may have answered at a tick; confidences in hundredths
MetricForecastChoices ==
    { [prediction |-> 105, confidence |-> 80],
      [prediction |-> 108, confidence |-> 60] }

NoForecast == [prediction |-> NULL, confidence |-> NULL]

\* the forecasts map of a tick result, in the order of the configured forecasters
MetricForecasts(answers) ==
    LET sel == SelectSeq(forecasterModels, LAMBDA m : answers[m] # NoForecast)
    IN  [k \in 1..Len(sel) |-> <<sel[k], answers[sel[k]]>>]

MetricInit ==
    /\ \E pattern \in MetricTickSequences : ticks = MakeTicks(pattern)
    /\ \E sel \in LlmSelectionChoices \ {<<>>} :
          config = [llmSelections |-> sel, judgeModel |-> IdJ, feedbackLimit |-> 0,
                    simulationOptions |-> [maxPredictions |-> MaxMetricTicks]]
    /\ apiKeys = {OpenRouter, GoogleGemini}
    /\ pc = "score"
    /\ i = 0
    /\ fcall = [m \in ModelSet |-> NoCall]
    /\ jcall = [m \in ModelSet |-> NoJudgeCall]
    /\ tickForecasts = <<>>
    /\ tickEvaluations = <<>>
    /\ modelFeedbackHistory = <<>>
    /\ modelPerformanceHistory = <<>>
    /\ persistentModelErrors = <<>>
    /\ \E n \in 0..(Len(ticks) - 1) :
          \E answers \in [1..n -> [ModelSet -> MetricForecastChoices \cup {NoForecast}]
                                    \ {[m \in ModelSet |-> NoForecast]}] :
             tickResults = [k \in 1..n |->
                               [tickIndex |-> k - 1, tickData |-> ticks[k],
                                forecasts |-> MetricForecasts(answers[k]),
                                evaluations |-> EvaluationsOf(
                                    {m \in ModelSet : answers[k][m] # NoForecast}, k - 1)]]
    /\ results = <<>>

MetricSpec == MetricInit /\ [][ScoreNext]_vars

\* ------------------------------------------------------ the prompt builder
\* A prompt, a template or a substituted value is a sequence of pieces: text,
\* "[name]" tags (Tag), replacement patterns (Dollar), numbers and dates as
\* String() and toLocaleDateString() print them, and line breaks.
Dollar(pattern) == [t |-> "dollar", v |-> pattern]

Newline == [t |-> "nl", v |-> "\n"]

\* String(x)
NumText(x) == IF x = NULL THEN Txt("null") ELSE [t |-> "num", v |-> x]

\* new Date(d).toLocaleDateString()
LocaleDate(d) == [t |-> "localeDate", v |-> d]

\* the replacement string as String.prototype.replace inserts it for the
\* match `matched`: "$$" gives "$" and "$&" gives the matched text
ExpandReplacement(value, matched) ==
    FlatMap(LAMBDA piece : IF piece = Dollar("$$") THEN <<Txt("$")>>
                           ELSE IF piece = Dollar("$&") THEN <<matched>>
                           ELSE <<piece>>,
            value)

\* prompt.replace(/\[name\]/g, value): every match in the text as it was is
\* replaced; the inserted text is not searched again by this call
ReplaceAll(prompt, name, value) ==
    FlatMap(LAMBDA piece : IF piece = Tag(name) THEN ExpandReplacement(value, piece)
                           ELSE <<piece>>,
            prompt)

RECURSIVE JoinLines(_)
JoinLines(lines) ==
    IF lines = <<>> THEN <<>>
    ELSE IF Len(lines) = 1 THEN Head(lines)
    ELSE Head(lines) \o <<Newline>> \o JoinLines(Tail(lines))

peerData(currentTick) ==
    JoinLines([k \in 1..Len(currentTick.peers) |->
                  <<Txt("- ")>> \o currentTick.peers[k].title \o <<Txt(": ")>>
                  \o <<NumText(currentTick.peers[k].value)>> \o <<Txt(" (")>>
                  \o currentTick.peers[k].unit \o <<Txt(")")>>])

feedbackText(pastFeedback) ==
    IF Len(pastFeedback) > 0
    THEN JoinLines([k \in 1..Len(pastFeedback) |->
                       <<Txt("Feedback "), NumText(k), Txt(": ")>> \o pastFeedback[k]])
    ELSE <<Txt("None (first tick)")>>

PastFeedbackOrNone == "PAST_FEEDBACK or \"None (first tick)\""

buildForecastPrompt(basePrompt, currentTick, nextTickDate, pastFeedback, feedbackLimit) ==
    LET p1 == ReplaceAll(basePrompt, "COUNTRY", currentTick.country)
        p2 == ReplaceAll(p1, "INDICATOR", currentTick.indicator)
        p3 == ReplaceAll(p2, "CURRENT_DATE", <<LocaleDate(currentTick.date)>>)
        p4 == ReplaceAll(p3, "CURRENT_VALUE", <<NumText(currentTick.value)>>)
        p5 == ReplaceAll(p4, "CURRENT_UNIT", currentTick.unit)
        p6 == ReplaceAll(p5, "PEER_DATA", peerData(currentTick))
        p7 == ReplaceAll(p6, "FEEDBACK_LIMIT", <<NumText(feedbackLimit)>>)
        p8 == ReplaceAll(p7, PastFeedbackOrNone, feedbackText(pastFeedback))
        p9 == ReplaceAll(p8, "PAST_FEEDBACK", feedbackText(pastFeedback))
    IN  ReplaceAll(p9, "NEXT_DATE", <<LocaleDate(nextTickDate)>>)

\* the tags of DEFAULT_FORECAST_PROMPT in their order, with the text between them
DEFAULT_FORECAST_PROMPT ==
    << Txt("You are a deterministic macroeconomic forecaster for backtesting. Country: "),
       Tag("COUNTRY"), Txt("Target Indicator: "), Tag("INDICATOR"),
       Txt("Current Period: "), Tag("CURRENT_DATE"),
       Txt("Current Value: "), Tag("CURRENT_VALUE"), Txt(" ("), Tag("CURRENT_UNIT"),
       Txt(") Related Indicators (Peers):"), Tag("PEER_DATA"),
       Txt("Past Feedback (for this model, up to "), Tag("FEEDBACK_LIMIT"), Txt(" ticks):"),
       Tag(PastFeedbackOrNone),
       Txt("Task: Predict the next period's ("), Tag("NEXT_DATE"), Txt(") value for "),
       Tag("INDICATOR"), Txt(". Output a JSON object.") >>

\* a template of the user's own, with the short past-feedback tag
PromptTemplates ==
    { DEFAULT_FORECAST_PROMPT,
      << Txt("Forecast "), Tag("INDICATOR"), Txt(" of "), Tag("COUNTRY"), Txt(" for "),
         Tag("NEXT_DATE"), Txt(". Feedback: "), Tag("PAST_FEEDBACK") >> }

MaxPromptFeedback == 2

\* feedback strings a judge may return: plain text, text with "$&" or "$$" in
\* it, text that quotes a placeholder
FeedbackChoices ==
    { <<Txt("Bias was positive; lower the estimate.")>>,
      <<Txt("Error of "), Dollar("$&"), Txt(" is too high.")>>,
      <<Txt("Priced in "), Dollar("$$"), Txt(" terms.")>>,
      <<Txt("Anchor on "), Tag("NEXT_DATE"), Txt(".")>>,
      <<Txt("Data for "), Tag("COUNTRY"), Txt(" was revised.")>> }

FeedbackHistories == UNION {[1..n -> FeedbackChoices] : n \in 0..MaxPromptFeedback}

PromptTicks ==
    { [date |-> 0, country |-> <<Txt("Kenya")>>, indicator |-> <<Txt("Inflation Rate")>>,
       value |-> v, unit |-> u, peers |-> ps] :
        v \in {NULL, BaseValue(0)},
        u \in { <<Txt("percent")>>, <<Txt("USD per "), Tag("CURRENT_DATE")>> },
        ps \in { <<>>,
                 << [title |-> <<Txt("Interest Rate")>>, value |-> 7,
                     unit |-> <<Txt("percent")>>] >> } }

\* the arguments of a call of buildForecastPrompt as runBacktest makes it for
\* forecaster IdA
PromptInit ==
    /\ \E template \in PromptTemplates : \E limit \in 0..MaxFeedbackLimit :
          config = [llmSelections |-> << <<OpenRouter, <<NameGpt>>>> >>, judgeModel |-> IdJ,
                    forecastPrompt |-> template, feedbackLimit |-> limit,
                    simulationOptions |-> [maxPredictions |-> 1]]
    /\ \E currentTick \in PromptTicks :
          ticks = << currentTick, [currentTick EXCEPT !.date = 1] >>
    /\ apiKeys = {OpenRouter, GoogleGemini}
    /\ pc = "build"
    /\ i = 0
    /\ fcall = [m \in ModelSet |-> NoCall]
    /\ jcall = [m \in ModelSet |-> NoJudgeCall]
    /\ tickForecasts = <<>>
    /\ tickEvaluations = <<>>
    /\ \E history \in FeedbackHistories : modelFeedbackHistory = << <<IdA, history>> >>
    /\ modelPerformanceHistory = << <<IdA, <<>> >> >>
    /\ persistentModelErrors = <<>>
    /\ tickResults = <<>>
    /\ results = <<>>

\* const pastFeedback = modelFeedbackHistory[modelId].slice(-feedbackLimit);
\* const prompt = buildForecastPrompt(forecastPrompt, currentTick, nextTick.date, ...)
\* results holds the prompt
BuildPrompt ==
    /\ pc = "build"
    /\ pc' = "built"
    /\ results' = << buildForecastPrompt(
                        config.forecastPrompt, TickAt(i), TickAt(i + 1).date,
                        SliceLast(Get(modelFeedbackHistory, IdA), config.feedbackLimit),
                        config.feedbackLimit) >>
    /\ UNCHANGED <<config, ticks, apiKeys, i, fcall, jcall, tickForecasts,
                   tickEvaluations, modelFeedbackHistory, modelPerformanceHistory,
                   persistentModelErrors, tickResults>>

PromptNext == BuildPrompt

PromptSpec == PromptInit /\ [][PromptNext]_vars

\* ------------------------------------------------------------ properties
\* a permanent error is recorded for the forecaster
MarkedFailed(errs, m) == \E k \in 1..Len(errs) : errs[k][1] = m /\ errs[k][2] # <<>>

RecordedMessage(errs, m) == errs[CHOOSE k \in 1..Len(errs) : errs[k][1] = m][2]

\* the step issues a model invocation for forecaster m (a first call or a retry)
ForecastInvoked(m) ==
    /\ fcall'[m].status = "inflight"
    /\ fcall[m].status # "inflight"

\* the step calls generateJsonContent for forecaster m in the forecast step
ForecastCalled(m) ==
    \/ ForecastInvoked(m)
    \/ fcall[m].status = "none" /\ fcall'[m].status = "rejected"

\* the step calls the judge for forecaster m's forecast
JudgeCalled(m) ==
    /\ jcall[m].status = "none"
    /\ jcall'[m].status \in {"inflight", "rejected"}

\* the step is the one in which Promise.all(forecastPromises) resolves
IsForecastBarrier == pc = "forecast" /\ pc' # "forecast"

\* the step is the one in which Promise.all(evaluationPromises) resolves
IsEvalBarrier == pc = "evaluate" /\ (pc' # "evaluate" \/ i' # i)

\* once a forecaster is marked failed it stays marked with the same message and
\* no forecaster or judge call is made for it any more
StickyStep ==
    \A m \in ModelSet :
        MarkedFailed(persistentModelErrors, m) =>
            /\ MarkedFailed(persistentModelErrors', m)
            /\ RecordedMessage(persistentModelErrors', m)
                   = RecordedMessage(persistentModelErrors, m)
            /\ ~ForecastCalled(m)
            /\ ~JudgeCalled(m)

\* C1: a forecaster whose forecast call finally fails at a tick is marked
\* permanently failed when the forecast phase of that tick completes, whatever
\* the message; its recorded message is never overwritten; and no forecaster or
\* judge invocation is issued for it on any later tick.
C1_StickyForecastFailure ==
    [][ /\ IsForecastBarrier =>
              \A m \in ModelSet :
                  fcall[m].status = "rejected" =>
                      /\ MarkedFailed(persistentModelErrors', m)
                      /\ ~JudgeCalled(m)
        /\ StickyStep ]_vars

\* a later tick's forecast phase is running and a forecaster that failed its
\* forecast earlier is skipped while another one is invoked
C1_Witness ==
    \E m \in ModelSet, o \in ModelSet :
        /\ pc = "forecast"
        /\ i >= 1
        /\ MarkedFailed(persistentModelErrors, m)
        /\ Head(RecordedMessage(persistentModelErrors, m)) # Txt(TxtEvaluationFailed)
        /\ fcall[m].status = "skipped"
        /\ fcall[o].status = "inflight"

\* C2: a forecaster whose judge call fails at a tick is marked permanently
\* failed when the evaluation phase of that tick completes, no evaluation and no
\* history entry is recorded for it at that tick, and it is never forecast or
\* judged on a later tick.
C2_StickyJudgeFailure ==
    [][ /\ IsEvalBarrier =>
              \A m \in ModelSet :
                  jcall[m].status = "rejected" =>
                      /\ MarkedFailed(persistentModelErrors', m)
                      /\ modelFeedbackHistory'[m] = modelFeedbackHistory[m]
                      /\ modelPerformanceHistory'[m] = modelPerformanceHistory[m]
                      /\ \A k \in 1..Len(tickResults') :
                            tickResults'[k].tickIndex = i =>
                                ~(\E e \in 1..Len(tickResults'[k].evaluations) :
                                      tickResults'[k].evaluations[e][1] = m)
                      /\ ~ForecastCalled(m)
        /\ StickyStep ]_vars

\* a later tick's forecast phase is running and a forecaster whose judge call
\* failed earlier is skipped while another one is invoked
C2_Witness ==
    \E m \in ModelSet, o \in ModelSet :
        /\ pc = "forecast"
        /\ i >= 1
        /\ MarkedFailed(persistentModelErrors, m)
        /\ Head(RecordedMessage(persistentModelErrors, m)) = Txt(TxtEvaluationFailed)
        /\ fcall[m].status = "skipped"
        /\ fcall[o].status = "inflight"

\* the tick after index idx exists and has no primary value
NullNextAt(idx) == idx + 2 <= Len(ticks) /\ ticks[idx + 2].value = NULL

IsPrefix(s, t) == Len(s) <= Len(t) /\ SubSeq(t, 1, Len(s)) = s

\* C3: at a loop index whose next tick has no primary value the loop stops
\* before the forecast phase: no forecaster call and no judge call is made for
\* that index or a later one, and no permanent error is recorded at that index.
C3_CheckPrecedesForecastPhase ==
    [][ /\ NullNextAt(i') =>
              \A m \in ModelSet : ~ForecastCalled(m) /\ ~JudgeCalled(m)
        /\ (pc \in {"forecast", "evaluate"} /\ NullNextAt(i)) =>
              persistentModelErrors' = persistentModelErrors ]_vars

\* C4: when the loop halts at index i on a null next value, runBacktest
\* returns a report (it does not throw), the returned tickResults are the ones
\* committed before, all for indices below i, and no step ever removes or
\* alters a committed TickResult.
C4_HaltPreservesEarlierWork ==
    [][ /\ (IsForecastBarrier /\ NullNextAt(i)) =>
              /\ pc' = "done"
              /\ i' = i
              /\ tickResults' = tickResults
              /\ \A k \in 1..Len(tickResults') : tickResults'[k].tickIndex < i
              /\ Len(results') = 1
              /\ "topPerformers" \in DOMAIN results'[1]
              /\ \A m \in ModelSet : ~ForecastCalled(m) /\ ~JudgeCalled(m)
        /\ IsPrefix(tickResults, tickResults') ]_vars

\* the run has halted at index 2 on a null next value with TickResults for
\* ticks 0 and 1, and a tick with a value follows the null one
C4_Witness ==
    /\ pc = "done"
    /\ i = 2
    /\ NullNextAt(2)
    /\ Len(ticks) >= 5
    /\ ticks[5].value # NULL
    /\ Len(tickResults) = 2
    /\ tickResults[1].tickIndex = 0
    /\ tickResults[2].tickIndex = 1

Pending(call) == call.status \in {"inflight", "sleeping"}

\* C5: no judge call of a tick is issued while a forecaster call of that tick
\* (or its retry) is outstanding; no forecaster call of the next tick is issued
\* while a judge call is outstanding, and when it is issued the histories and
\* permanent errors of the finished tick are already applied and its prompt is
\* built from the updated history.
C5_PhaseBarriers ==
    /\ [](\A m \in ModelSet, o \in ModelSet :
              ~(Pending(fcall[m]) /\ jcall[o].status = "inflight"))
    /\ [][ /\ \A m \in ModelSet :
                  JudgeCalled(m) =>
                      /\ pc = "forecast"
                      /\ \A o \in ModelSet : ~Pending(fcall[o])
                      /\ jcall'[m].tick = i
           /\ \A m \in ModelSet :
                  ForecastCalled(m) =>
                      \/ pc = "start"
                      \/ fcall[m].status = "sleeping" /\ i' = i /\ pc = "forecast"
                      \/ /\ pc = "evaluate"
                         /\ i' = i + 1
                         /\ fcall'[m].tick = i + 1
                         /\ \A o \in ModelSet : jcall[o].status # "inflight"
                         /\ \A o \in ModelSet :
                               jcall[o].status = "fulfilled" =>
                                   /\ modelFeedbackHistory'[o] =
                                         Append(modelFeedbackHistory[o],
                                                jcall[o].value[1].feedback)
                                   /\ Len(modelPerformanceHistory'[o]) =
                                         Len(modelPerformanceHistory[o]) + 1
                                   /\ fcall'[o].pastFeedback # <<>>
                                   /\ fcall'[o].pastFeedback[Len(fcall'[o].pastFeedback)]
                                         = jcall[o].value[1].feedback
                         /\ \A o \in ModelSet :
                               jcall[o].status = "rejected" =>
                                   /\ MarkedFailed(persistentModelErrors', o)
                                   /\ fcall'[o].status = "skipped" ]_vars

\* one forecaster's call of tick 1 is in flight, issued after the other
\* forecaster's judge call of tick 0 had settled with a failure
C5_Witness ==
    \E m \in ModelSet, o \in ModelSet :
        /\ pc = "forecast"
        /\ i = 1
        /\ fcall[m].status = "inflight"
        /\ Len(modelFeedbackHistory[m]) = 1
        /\ fcall[m].pastFeedback = modelFeedbackHistory[m]
        /\ MarkedFailed(persistentModelErrors, o)
        /\ Head(RecordedMessage(persistentModelErrors, o)) = Txt(TxtEvaluationFailed)

FailedKeys(errs) == {errs[k][1] : k \in 1..Len(errs)}

\* C6: after the preconditions, a run throws only because a judge answer that
\* was returned successfully has no numeric error, never because a call failed;
\* a failed call leaves the other forecasters of the tick forecast, judged and
\* recorded, and only adds the failing forecaster to the permanent errors.
C6_FailureIsolation ==
    [][ /\ (pc # "start" /\ pc' = "thrown") =>
              /\ pc = "forecast"
              /\ \E m \in ModelSet :
                    /\ fcall[m].status = "fulfilled"
                    /\ \E k \in 1..Len(modelPerformanceHistory[m]) :
                          modelPerformanceHistory[m][k].error = <<>>
        /\ (IsForecastBarrier /\ pc' = "evaluate") =>
              \A o \in ModelSet :
                  fcall[o].status = "fulfilled" =>
                      /\ \E k \in 1..Len(tickForecasts') :
                            tickForecasts'[k] = <<o, fcall[o].value[1]>>
                      /\ JudgeCalled(o)
        /\ IsForecastBarrier =>
              FailedKeys(persistentModelErrors') =
                  FailedKeys(persistentModelErrors)
                      \cup {m \in ModelSet : fcall[m].status = "rejected"}
        /\ IsEvalBarrier =>
              /\ pc' # "thrown"
              /\ FailedKeys(persistentModelErrors') =
                     FailedKeys(persistentModelErrors)
                         \cup {m \in ModelSet : jcall[m].status = "rejected"}
              /\ \A o \in ModelSet :
                    jcall[o].status = "fulfilled" =>
                        /\ Len(tickResults') = Len(tickResults) + 1
                        /\ tickResults'[Len(tickResults')].tickIndex = i
                        /\ \E k \in 1..Len(tickResults'[Len(tickResults')].evaluations) :
                              tickResults'[Len(tickResults')].evaluations[k]
                                  = <<o, jcall[o].value[1]>>
                        /\ \E k \in 1..Len(tickResults'[Len(tickResults')].forecasts) :
                              tickResults'[Len(tickResults')].forecasts[k][1] = o ]_vars

\* a TickResult of tick 0 holds one forecaster's evaluation although the other
\* forecaster's forecast call failed on that tick
C6_Witness ==
    \E m \in ModelSet, o \in ModelSet :
        /\ m # o
        /\ Len(tickResults) >= 1
        /\ tickResults[1].tickIndex = 0
        /\ \E k \in 1..Len(tickResults[1].evaluations) :
              tickResults[1].evaluations[k][1] = o
        /\ ~(\E k \in 1..Len(tickResults[1].forecasts) :
                tickResults[1].forecasts[k][1] = m)
        /\ MarkedFailed(persistentModelErrors, m)

InMap(map, key) == \E k \in 1..Len(map) : map[k][1] = key

\* the forecaster's forecast call of tick 0 failed: it is marked failed by a
\* forecast error (not by a judge failure) and has never been evaluated
FirstCallFailed(m) ==
    /\ pc # "start"
    /\ MarkedFailed(persistentModelErrors, m)
    /\ Head(RecordedMessage(persistentModelErrors, m)) # Txt(TxtEvaluationFailed)
    /\ modelFeedbackHistory[m] = <<>>

ReportedFailed(m) ==
    /\ ~(\E k \in 1..Len(results[1].topPerformers) :
            results[1].topPerformers[k].modelId = m)
    /\ Cardinality({k \in 1..Len(results[1].excludedModels) :
                       results[1].excludedModels[k].modelId = m}) = 1
    /\ \A k \in 1..Len(results[1].excludedModels) :
          results[1].excludedModels[k].modelId = m =>
              /\ results[1].excludedModels[k].reason = "Failed"
              /\ results[1].excludedModels[k].predictions = 0

\* the fulfilled judge answers of the forecasters other than m, in configured order
OthersEvaluations(m) ==
    LET others == SelectSeq(forecasterModels,
                            LAMBDA o : o # m /\ jcall[o].status = "fulfilled")
    IN  [k \in 1..Len(others) |-> <<others[k], jcall[others[k]].value[1]>>]

\* the forecasts of the tick without m's
OthersForecasts(m) == SelectSeq(tickForecasts, LAMBDA e : e[1] # m)

\* C7: a forecaster whose first forecast call fails is in the forecasts and
\* evaluations of no TickResult, is not a top performer and is reported once,
\* as 'Failed'; and every TickResult committed on that tick or later is the one
\* the other forecasters' calls alone produce (the run without that forecaster).
C7_FirstCallFailureInvisible ==
    /\ [](\A m \in ModelSet :
             FirstCallFailed(m) =>
                 /\ \A k \in 1..Len(tickResults) :
                       /\ ~InMap(tickResults[k].forecasts, m)
                       /\ ~InMap(tickResults[k].evaluations, m)
                 /\ pc = "done" => ReportedFailed(m))
    /\ [][ \A m \in ModelSet :
              (FirstCallFailed(m) /\ IsEvalBarrier) =>
                  tickResults' =
                      IF OthersEvaluations(m) # <<>>
                      THEN Append(tickResults,
                                  [tickIndex |-> i, tickData |-> ticks[i + 1],
                                   forecasts |-> OthersForecasts(m),
                                   evaluations |-> OthersEvaluations(m)])
                      ELSE tickResults ]_vars

\* the run is over; one forecaster failed its first forecast call and the
\* other has TickResults for tick 0 and a later tick
C7_Witness ==
    \E m \in ModelSet, o \in ModelSet :
        /\ pc = "done"
        /\ FirstCallFailed(m)
        /\ ReportedFailed(m)
        /\ Len(tickResults) >= 2
        /\ tickResults[1].tickIndex = 0
        /\ InMap(tickResults[1].evaluations, o)
        /\ InMap(tickResults[2].evaluations, o)

\* C8: a forecaster that was never both forecast and evaluated successfully has
\* no entry in any TickResult and is reported with predictions = 0 in
\* excludedModels as 'Failed', never in topPerformers.
C8_ZeroSuccessfulTicksExcluded ==
    pc = "done" =>
        \A m \in ModelSet :
            (\A k \in 1..Len(tickResults) : ~InMap(tickResults[k].evaluations, m)) =>
                /\ \A k \in 1..Len(tickResults) : ~InMap(tickResults[k].forecasts, m)
                /\ ReportedFailed(m)

\* C9: when the evaluation phase of tick i completes a TickResult with
\* tickIndex i is appended exactly if some forecaster's judge call of the tick
\* succeeded, and the loop goes on to index i + 1 either way; no other step
\* changes tickResults; a committed TickResult has evaluations, all of
\* forecasters that have a forecast in it, and is never altered.
C9_TickCommitRule ==
    /\ [](\A k \in 1..Len(tickResults) :
             /\ tickResults[k].evaluations # <<>>
             /\ \A e \in 1..Len(tickResults[k].evaluations) :
                   InMap(tickResults[k].forecasts, tickResults[k].evaluations[e][1]))
    /\ [][ /\ IsEvalBarrier =>
                 /\ i' = i + 1
                 /\ IF \E m \in ModelSet : jcall[m].status = "fulfilled"
                    THEN /\ Len(tickResults') = Len(tickResults) + 1
                         /\ tickResults'[Len(tickResults')].tickIndex = i
                    ELSE tickResults' = tickResults
           /\ ~IsEvalBarrier => tickResults' = tickResults
           /\ IsPrefix(tickResults, tickResults') ]_vars

\* tick 0 was committed, tick 1 committed nothing, and the loop is at tick 2
C9_Witness ==
    /\ pc = "forecast"
    /\ i = 2
    /\ Len(tickResults) = 1
    /\ tickResults[1].tickIndex = 0

\* C10: getForecastWithRetries calls the model at most 3 times for one
\* forecaster and tick; it waits and calls again only after a failure that
\* isRetryable classifies as retryable with attempts left; any other failure,
\* and a failure of the third call, rejects at once; after a success no
\* further call is made on that tick.
C10_BoundedRetry ==
    /\ [](\A m \in ModelSet :
             /\ fcall[m].calls <= 3
             /\ fcall[m].status = "sleeping" =>
                   isRetryable(fcall[m].reason) /\ fcall[m].calls < 3)
    /\ [][ \A m \in ModelSet :
              /\ (pc = "forecast" /\ ForecastInvoked(m)) =>
                    /\ fcall[m].status = "sleeping"
                    /\ fcall'[m].calls = fcall[m].calls + 1
              /\ (fcall[m].status = "inflight" /\ fcall'[m].status = "rejected") =>
                    ~isRetryable(fcall'[m].reason) \/ fcall[m].calls = 3
              /\ (fcall[m].status = "inflight" /\ fcall'[m].status = "sleeping") =>
                    isRetryable(fcall'[m].reason) /\ fcall[m].calls < 3
              /\ (fcall[m].status = "inflight" /\ fcall'[m] # fcall[m]) =>
                    fcall'[m].status \in {"fulfilled", "rejected", "sleeping"}
              /\ (fcall[m].status \in {"fulfilled", "rejected"} /\ i' = i) =>
                    ~ForecastInvoked(m) ]_vars

\* the third call of a forecaster is in flight, after two backoffs
C10_Witness ==
    \E m \in ModelSet :
        /\ pc = "forecast"
        /\ fcall[m].status = "inflight"
        /\ fcall[m].calls = 3
        /\ fcall[m].attempts = 2

\* the forecast call of forecaster m has been rejected with an authentication,
\* missing-key or malformed-output error
NonRetryableTexts == {TxtInvalidKey, TxtKeyNotValid, TxtMalformed, "is not configured."}

IsAuthOrMalformed(msg) == \E k \in 1..Len(msg) : msg[k].v \in NonRetryableTexts

\* C11: at the step that ends the forecast phase of a tick the judge is called
\* for exactly the forecasters whose forecast of that tick was fulfilled, once
\* each, and a judge call that has been issued is never issued again.
C11_JudgeOncePerSuccessfulForecast ==
    [][ /\ IsForecastBarrier =>
              \A m \in ModelSet :
                  /\ fcall[m].status = "fulfilled" =>
                        JudgeCalled(m) /\ jcall'[m].calls <= 1
                  /\ fcall[m].status # "fulfilled" => ~JudgeCalled(m)
        /\ ~IsForecastBarrier =>
              \A m \in ModelSet : jcall'[m].status = "inflight" => jcall[m].status = "inflight" ]_vars

\* C12: a forecast call that failed with an authentication, missing-key or
\* malformed-output error is never retried, whatever the model is called: no
\* backoff is entered with such an error.
C12_AuthAndMalformedNotRetried ==
    \A m \in ModelSet :
        fcall[m].status = "sleeping" => ~IsAuthOrMalformed(fcall[m].reason)

\* one of runBacktest's three preconditions does not hold
PreconditionFails ==
    \/ config.judgeModel = EmptyString
    \/ Len(forecasterModels) = 0
    \/ Len(ticks) < 2

\* C13: when no judge is selected, no forecaster is selected or fewer than two
\* ticks are given, runBacktest ends with one run-level error: no forecaster or
\* judge call is issued and no history, TickResult or per-model error exists.
C13_PreconditionsFailFast ==
    PreconditionFails =>
        /\ pc \in {"start", "thrown"}
        /\ pc = "thrown" => Len(results) = 1 /\ DOMAIN results[1] = {"error"}
        /\ pc = "start" => results = <<>>
        /\ \A m \in ModelSet : fcall[m].status = "none" /\ jcall[m].status = "none"
        /\ modelFeedbackHistory = <<>>
        /\ modelPerformanceHistory = <<>>
        /\ persistentModelErrors = <<>>
        /\ tickResults = <<>>
        /\ tickForecasts = <<>>
        /\ tickEvaluations = <<>>

\* a run with a judge and forecasters but a single tick has been rejected
C13_Witness ==
    /\ pc = "thrown"
    /\ config.judgeModel # EmptyString
    /\ Len(forecasterModels) > 0
    /\ Len(ticks) < 2
    /\ results = << [error |-> "At least two data ticks are required to run a backtest."] >>

\* min(ticks.length - 1, maxPredictions)
LoopBound ==
    IF Len(ticks) - 1 < config.simulationOptions.maxPredictions
    THEN Len(ticks) - 1
    ELSE config.simulationOptions.maxPredictions

\* C14: the loop index goes up by one from 0, a forecast phase is started for
\* index i only when i + 1 is at most min(ticks.length - 1, maxPredictions) and
\* a tick follows index i; so the forecast phases, the calls of any forecaster
\* and the committed TickResults all stay within that bound, and the last tick
\* is never the current tick.
C14_LoopBound ==
    /\ [](/\ pc \in {"forecast", "evaluate"} => i + 1 <= LoopBound /\ i + 2 <= Len(ticks)
          /\ Len(tickResults) <= (IF LoopBound > 0 THEN LoopBound ELSE 0)
          /\ \A k \in 1..Len(tickResults) :
                /\ tickResults[k].tickIndex + 1 <= LoopBound
                /\ tickResults[k].tickIndex + 2 <= Len(ticks)
          /\ \A m \in ModelSet :
                /\ fcall[m].status # "none" => fcall[m].tick = i /\ i + 1 <= LoopBound
                /\ jcall[m].status # "none" => jcall[m].tick = i /\ i + 1 <= LoopBound)
    /\ [][ /\ i' \in {i, i + 1}
           /\ pc = "start" => i' = 0 ]_vars

\* a 5-tick run capped by maxPredictions = 2 has finished with two TickResults
C14_Witness ==
    /\ pc = "done"
    /\ Len(ticks) = 5
    /\ config.simulationOptions.maxPredictions = 2
    /\ Len(tickResults) = 2
    /\ i = 2
    /\ \A k \in 1..Len(ticks) : ticks[k].value # NULL

\* the most recent n entries of a history, in their order (all of them when
\* there are fewer than n)
LastN(history, n) ==
    IF n >= Len(history) THEN history
    ELSE SubSeq(history, Len(history) - n + 1, Len(history))

\* C15: for every feedbackLimit >= 0 the past feedback given to a forecast
\* prompt and the past performance given to a judge prompt are the most
\* recent feedbackLimit entries of that forecaster's history, in order, and
\* so never more than feedbackLimit entries.
C15_HistoryTruncation ==
    \A m \in ModelSet :
        /\ (pc = "forecast" /\ fcall[m].status \notin {"none", "skipped"}) =>
              /\ Len(fcall[m].pastFeedback) <= config.feedbackLimit
              /\ fcall[m].pastFeedback = LastN(modelFeedbackHistory[m], config.feedbackLimit)
        /\ (pc = "evaluate" /\ jcall[m].status # "none") =>
              /\ Len(jcall[m].pastPerformance) <= config.feedbackLimit
              /\ jcall[m].pastPerformance = LastN(modelPerformanceHistory[m], config.feedbackLimit)

\* the value stored in a map under a key
ValueAt(map, key) == map[CHOOSE k \in 1..Len(map) : map[k][1] = key][2]

\* forecaster m was forecast and evaluated successfully at the tick whose
\* evaluation phase ends with this step
EvaluatedNow(m) == IsEvalBarrier /\ jcall[m].status = "fulfilled"

\* C16: in the step that ends the evaluation phase of a tick, each forecaster
\* that was forecast and evaluated at that tick gets exactly the judge's
\* feedback appended to its feedback history and exactly the tuple (its
\* prediction of that tick, the next tick's value, the judge's error) appended
\* to its performance history; in every other case a forecaster's histories
\* stay as they are, and they start empty.
C16_HistoryAppendOnly ==
    [][ IF pc = "start"
        THEN \A m \in DOMAIN modelFeedbackHistory' :
                modelFeedbackHistory'[m] = <<>> /\ modelPerformanceHistory'[m] = <<>>
        ELSE \A m \in ModelSet :
                IF EvaluatedNow(m)
                THEN /\ modelFeedbackHistory'[m] =
                           Append(modelFeedbackHistory[m], jcall[m].value[1].feedback)
                     /\ modelPerformanceHistory'[m] =
                           Append(modelPerformanceHistory[m],
                                  [prediction |-> ValueAt(tickForecasts, m).prediction,
                                   actual |-> ticks[i + 2].value,
                                   error |-> jcall[m].value[1].error])
                ELSE /\ modelFeedbackHistory'[m] = modelFeedbackHistory[m]
                     /\ modelPerformanceHistory'[m] = modelPerformanceHistory[m] ]_vars

\* one forecaster has two history entries while another, evaluated once and
\* then failed, has one
C16_Witness ==
    \E m \in ModelSet, n \in ModelSet :
        /\ pc \in {"forecast", "evaluate", "done"}
        /\ Len(modelPerformanceHistory[m]) = 2
        /\ Len(modelFeedbackHistory[m]) = 2
        /\ Len(modelPerformanceHistory[n]) = 1
        /\ MarkedFailed(persistentModelErrors, n)
        /\ modelPerformanceHistory[m][2].prediction # modelPerformanceHistory[m][2].actual

\* the entries of a report's excludedModels that are about forecaster m
ExcludedEntries(report, m) ==
    {k \in 1..Len(report.excludedModels) : report.excludedModels[k].modelId = m}

\* C17: a run that passed its preconditions and committed no TickResult does
\* not throw; when it has finished, its report has no top performer, its four
\* overall scores are 0, and excludedModels lists each configured forecaster
\* exactly once, with reason 'Failed' and predictions 0.
C17_EmptyRunShortCircuit ==
    /\ (tickResults = <<>> /\ ~PreconditionFails) => pc # "thrown"
    /\ (tickResults = <<>> /\ pc = "done") =>
          /\ Len(results) = 1
          /\ results[1].topPerformers = <<>>
          /\ results[1].compositeScore.num = 0
          /\ results[1].overallDirectionalAccuracy.num = 0
          /\ results[1].overallMagnitudeRmse.num = 0
          /\ results[1].overallAvgConfidence.num = 0
          /\ Len(results[1].excludedModels) = Len(forecasterModels)
          /\ \A m \in ModelSet :
                /\ Cardinality(ExcludedEntries(results[1], m)) = 1
                /\ \A k \in ExcludedEntries(results[1], m) :
                      /\ results[1].excludedModels[k].reason = "Failed"
                      /\ results[1].excludedModels[k].predictions = 0

\* a run with two forecasters has processed a tick and finished without any
\* TickResult
C17_Witness ==
    /\ pc = "done"
    /\ tickResults = <<>>
    /\ Cardinality(ModelSet) = 2
    /\ persistentModelErrors # <<>>
    /\ Len(results[1].excludedModels) = 2

\* the positions of tickResults that give forecaster m a sample: m has a
\* forecast there, and the tick at that position and the one after it have a
\* primary value
SamplePositions(m) ==
    {k \in 1..Len(tickResults) :
        /\ InMap(tickResults[k].forecasts, m)
        /\ ticks[k].value # NULL
        /\ k + 1 <= Len(ticks)
        /\ ticks[k + 1].value # NULL}

InTopPerformers(report, m) ==
    \E k \in 1..Len(report.topPerformers) : report.topPerformers[k].modelId = m

\* C18: of the models with at least one sample, exactly those whose samples are
\* fewer than 80% of ticks.length - 1 are excluded for 'Insufficient Coverage'
\* (and are not top performers); the others, a model at exactly 80% included,
\* are top performers and are not excluded.
C18_ThresholdPartition ==
    pc = "scored" =>
        \A m \in ModelSet :
            Cardinality(SamplePositions(m)) > 0 =>
                IF Cardinality(SamplePositions(m)) * 100 < 80 * (Len(ticks) - 1)
                THEN /\ ~InTopPerformers(results[1], m)
                     /\ Cardinality(ExcludedEntries(results[1], m)) = 1
                     /\ \A k \in ExcludedEntries(results[1], m) :
                           results[1].excludedModels[k].reason = "Insufficient Coverage"
                ELSE /\ InTopPerformers(results[1], m)
                     /\ ExcludedEntries(results[1], m) = {}

\* a model with 4 samples out of 5 possible ticks is a top performer while
\* another one is excluded for its coverage
C18_Witness ==
    /\ pc = "scored"
    /\ Len(ticks) = 6
    /\ \E m \in ModelSet, n \in ModelSet :
          /\ Cardinality(SamplePositions(m)) = 4
          /\ InTopPerformers(results[1], m)
          /\ Cardinality(SamplePositions(n)) = 3
          /\ ExcludedEntries(results[1], n) # {}

\* C19: whatever the tick results are, a configured model without any sample
\* is not a top performer and is listed once in excludedModels, as 'Failed'
\* with predictions 0.
C19_ZeroSamplesFailed ==
    pc = "scored" =>
        \A m \in ModelSet : SamplePositions(m) = {} => ReportedFailed(m)

\* the tick results are not empty and hold a forecast of a model that has no
\* sample, next to a model that is a top performer
C19_Witness ==
    /\ pc = "scored"
    /\ results[1].topPerformers # <<>>
    /\ \E m \in ModelSet :
          /\ SamplePositions(m) = {}
          /\ \E k \in 1..Len(tickResults) : InMap(tickResults[k].forecasts, m)
          /\ persistentModelErrors = <<>>

\* the models a finished report excludes for their coverage
CoverageExcluded(report) ==
    {report.excludedModels[k] :
        k \in {j \in 1..Len(report.excludedModels) :
                  report.excludedModels[j].reason = "Insufficient Coverage"}}

\* the entry's completionRate is predictions * 100 / (ticks.length - 1), with
\* predictions the number of the model's samples
RateOverAllTicks(e) ==
    /\ e.completionRate.den > 0
    /\ e.completionRate.num * (Len(ticks) - 1) = e.predictions * 100 * e.completionRate.den
    /\ e.predictions = Cardinality(SamplePositions(e.modelId))

\* C20: in the report of a finished run every top performer and every model
\* excluded for 'Insufficient Coverage' has completionRate = predictions * 100
\* / (ticks.length - 1), where predictions is the number of its samples; the
\* divisor is the length of the tick sequence less one, whatever maxPredictions
\* or an early halt let the run process.
C20_CompletionRate ==
    pc = "done" =>
        /\ \A k \in 1..Len(results[1].topPerformers) :
              RateOverAllTicks(results[1].topPerformers[k])
        /\ \A e \in CoverageExcluded(results[1]) :
              RateOverAllTicks(e) /\ e.totalTicks = Len(ticks) - 1

\* a run of 5 ticks limited to one prediction has finished: its one forecaster
\* has 1 sample of 4 possible ticks and is excluded for its coverage
C20_Witness ==
    /\ pc = "done"
    /\ Len(ticks) = 5
    /\ config.simulationOptions.maxPredictions = 1
    /\ \E e \in CoverageExcluded(results[1]) :
          /\ e.predictions = 1
          /\ e.completionRate.num * 4 = 100 * e.completionRate.den

\* the two default messages of the report
DefaultMessages ==
    { <<Txt("No successful predictions were generated.")>>,
      <<Txt("Model failed to produce any valid output.")>> }

\* C21: in the report of a finished run, the message of every forecaster
\* reported as 'Failed' is the permanent error recorded for that forecaster id,
\* or a default message when none was recorded for it.
C21_FailureMessageAttribution ==
    pc = "done" =>
        \A k \in 1..Len(results[1].excludedModels) :
            LET e == results[1].excludedModels[k]
            IN  e.reason = "Failed" =>
                    IF MarkedFailed(persistentModelErrors, e.modelId)
                    THEN e.message = RecordedMessage(persistentModelErrors, e.modelId)
                    ELSE e.message \in DefaultMessages

\* position of a forecaster in the configured order
ConfiguredPosition(m) == CHOOSE k \in 1..Len(forecasterModels) : forecasterModels[k] = m

\* C22: in the report, topPerformers is in non-increasing order of composite
\* score, and entries with equal composite score are in the order in which
\* their forecasters were configured.
C22_RankingOrder ==
    pc = "scored" =>
        LET top == results[1].topPerformers
        IN  \A j \in 1..Len(top) : \A k \in 1..Len(top) :
                j < k =>
                    /\ top[j].compositeScore.num >= top[k].compositeScore.num
                    /\ (top[j].compositeScore.num = top[k].compositeScore.num
                            => ConfiguredPosition(top[j].modelId)
                                 < ConfiguredPosition(top[k].modelId))

\* a report in which the forecaster configured second ranks first
C22_Witness ==
    /\ pc = "scored"
    /\ Len(results[1].topPerformers) = 2
    /\ results[1].topPerformers[1].modelId = IdC
    /\ results[1].topPerformers[1].compositeScore.num
          > results[1].topPerformers[2].compositeScore.num

\* the value of ratio r in units of 1/unit (unit is a multiple of r.den)
Scaled(r, unit) == (r.num * unit) \div r.den

RECURSIVE ScaledSum(_, _)
ScaledSum(rs, unit) ==
    IF rs = <<>> THEN 0 ELSE Scaled(Head(rs), unit) + ScaledSum(Tail(rs), unit)

\* r is the arithmetic mean of the ratios rs, whose denominators divide unit
IsMeanOf(r, rs, unit) ==
    /\ r.den # 0
    /\ \A k \in 1..Len(rs) : rs[k].den # 0 /\ (rs[k].num * unit) % rs[k].den = 0
    /\ r.num * unit * Len(rs) = r.den * ScaledSum(rs, unit)

IsZero(r) == r.den # 0 /\ r.num = 0

\* C23: each of the four overall fields of a report is the arithmetic mean of
\* that field over the entries of topPerformers; when topPerformers is empty
\* the four are zero and every configured forecaster is in excludedModels.
C23_OverallSummary ==
    pc = "scored" =>
        LET report == results[1]
            top == report.topPerformers
        IN  IF Len(top) = 0
            THEN /\ IsZero(report.compositeScore)
                 /\ IsZero(report.overallDirectionalAccuracy)
                 /\ IsZero(report.overallMagnitudeRmse)
                 /\ IsZero(report.overallAvgConfidence)
                 /\ Len(report.excludedModels) = Len(forecasterModels)
            ELSE /\ IsMeanOf(report.compositeScore,
                             [k \in 1..Len(top) |-> top[k].compositeScore], 1000)
                 /\ IsMeanOf(report.overallDirectionalAccuracy,
                             [k \in 1..Len(top) |-> top[k].directionalAccuracy], 60)
                 /\ IsMeanOf(report.overallMagnitudeRmse,
                             [k \in 1..Len(top) |-> top[k].rmse], 100)
                 /\ IsMeanOf(report.overallAvgConfidence,
                             [k \in 1..Len(top) |-> top[k].avgConfidence], 60)

\* a report with two top performers whose composite scores differ
C23_Witness ==
    /\ pc = "scored"
    /\ Len(results[1].topPerformers) = 2
    /\ results[1].topPerformers[1].compositeScore # results[1].topPerformers[2].compositeScore
    /\ results[1].topPerformers[1].rmse # results[1].topPerformers[2].rmse

\* the benchmarked models of a report: the top performers and the models
\* excluded for insufficient coverage
Benchmarked(report) ==
    report.topPerformers
        \o SelectSeq(report.excludedModels, LAMBDA e : e.reason = "Insufficient Coverage")

InRange(r, lo, hi) == r.den > 0 /\ lo * r.den <= r.num /\ r.num <= hi * r.den

\* C24: in the report of a finished run every benchmarked model has a
\* directional accuracy between 0 and 100 and a Brier score between 0 and 1,
\* and the four weights of the composite score add up to 1.
C24_MetricRanges ==
    /\ WeightDirAcc + WeightRmse + WeightConfidence + WeightBrier = 10
    /\ pc = "done" =>
          \A k \in 1..Len(Benchmarked(results[1])) :
              /\ InRange(Benchmarked(results[1])[k].directionalAccuracy, 0, 100)
              /\ InRange(Benchmarked(results[1])[k].brierScore, 0, 1)

\* the forecast of m in the k-th tick result predicted the direction that the
\* value took from ticks[k-1] to ticks[k] (both flat counts as correct)
CorrectAt(k, m) ==
    LET predicted == ValueAt(tickResults[k].forecasts, m).prediction - ticks[k].value
        moved == ticks[k + 1].value - ticks[k].value
    IN  \/ predicted > 0 /\ moved > 0
        \/ predicted < 0 /\ moved < 0
        \/ predicted = 0 /\ moved = 0

\* the sum over m's samples among the first k tick results of
\* (confidence - flag)^2, in ten-thousandths
RECURSIVE BrierSumUpTo(_, _)
BrierSumUpTo(m, k) ==
    IF k = 0 THEN 0
    ELSE BrierSumUpTo(m, k - 1)
         + (IF k \in SamplePositions(m)
            THEN LET c == ValueAt(tickResults[k].forecasts, m).confidence
                     flag == IF CorrectAt(k, m) THEN 100 ELSE 0
                 IN  (c - flag) * (c - flag)
            ELSE 0)

\* forecaster m is the only one in the two tick results over ticks 100, 110,
\* 105, and predicted 105 and then 108
IsExampleOf(m) ==
    /\ [k \in 1..Len(ticks) |-> ticks[k].value] = <<100, 110, 105>>
    /\ Len(tickResults) = 2
    /\ \A k \in 1..2 : Len(tickResults[k].forecasts) = 1 /\ InMap(tickResults[k].forecasts, m)
    /\ ValueAt(tickResults[1].forecasts, m).prediction = 105
    /\ ValueAt(tickResults[2].forecasts, m).prediction = 108

\* C25: every benchmarked model of a report has predictions = the number of
\* its samples, directional accuracy = 100 x (samples whose predicted direction
\* equals the actual one, flat against flat included) / predictions, and a
\* Brier score that is the mean of (confidence - that same flag)^2. Over ticks
\* 100, 110, 105 a forecaster that predicted 105 and then 108 has 2 samples,
\* directional accuracy 100 and a root of the mean squared error 17.
C25_DirectionalAccuracy ==
    pc = "scored" =>
        \A k \in 1..Len(Benchmarked(results[1])) :
            LET e == Benchmarked(results[1])[k]
                m == e.modelId
                n == Cardinality(SamplePositions(m))
            IN  /\ e.predictions = n
                /\ n > 0
                /\ e.directionalAccuracy.den > 0
                /\ e.directionalAccuracy.num * n
                      = 100 * Cardinality({j \in SamplePositions(m) : CorrectAt(j, m)})
                          * e.directionalAccuracy.den
                /\ e.brierScore.den > 0
                /\ e.brierScore.num * n * 10000 = BrierSumUpTo(m, Len(tickResults)) * e.brierScore.den
                /\ IsExampleOf(m) =>
                      /\ e.predictions = 2
                      /\ e.directionalAccuracy.num = 100 * e.directionalAccuracy.den
                      /\ e.rmse.num * e.rmse.num <= 17 * e.rmse.den * e.rmse.den
                      /\ 17 * e.rmse.den * e.rmse.den < (e.rmse.num + 1) * (e.rmse.num + 1)

\* the report of the example
C25_Witness ==
    /\ pc = "scored"
    /\ IsExampleOf(IdA)
    /\ InTopPerformers(results[1], IdA)

Occurs(sub, s) ==
    \E k \in 0..(Len(s) - Len(sub)) : SubSeq(s, k + 1, k + Len(sub)) = sub

HasPastFeedbackTag(template) ==
    \E k \in 1..Len(template) : template[k] \in {Tag("PAST_FEEDBACK"), Tag(PastFeedbackOrNone)}

\* C27: with feedbackLimit >= 1 and a template that has the past-feedback
\* tag, the prompt built for a forecaster contains the latest feedback recorded
\* in its history exactly as it was recorded.
C27_FeedbackRoundTrip ==
    (/\ pc = "built"
     /\ config.feedbackLimit >= 1
     /\ HasPastFeedbackTag(config.forecastPrompt)
     /\ Len(ValueAt(modelFeedbackHistory, IdA)) > 0)
        => Occurs(ValueAt(modelFeedbackHistory, IdA)[Len(ValueAt(modelFeedbackHistory, IdA))],
                  results[1])

RecognizedTokens ==
    { "COUNTRY", "INDICATOR", "CURRENT_DATE", "CURRENT_VALUE", "CURRENT_UNIT",
      "PEER_DATA", "FEEDBACK_LIMIT", "PAST_FEEDBACK", "NEXT_DATE" }

\* C29: the prompt built from a template with the past-feedback tag contains
\* none of the recognized tags, whatever the tick, peer and feedback values
\* are, and holds the sentinel "None (first tick)" exactly when the supplied
\* history is empty.
C29_NoUnresolvedToken ==
    (pc = "built" /\ HasPastFeedbackTag(config.forecastPrompt)) =>
        /\ \A k \in 1..Len(results[1]) :
              ~(\E name \in RecognizedTokens : results[1][k] = Tag(name))
        /\ (Txt("None (first tick)") \in Range(results[1]))
              <=> (SliceLast(ValueAt(modelFeedbackHistory, IdA), config.feedbackLimit) = <<>>)

\* the samples of m taken from each tick result's own tick: the previous
\* actual is the value of ticks[r.tickIndex], the next actual the value of
\* ticks[r.tickIndex + 1]; a tick result lacking either gives no sample
RECURSIVE OwnTickSamples(_, _)
OwnTickSamples(m, k) ==
    IF k > Len(tickResults) THEN <<>>
    ELSE LET r == tickResults[k]
             hasNext == r.tickIndex + 2 <= Len(ticks)
         IN  (IF /\ ticks[r.tickIndex + 1].value # NULL
                 /\ hasNext
                 /\ ticks[r.tickIndex + 2].value # NULL
                 /\ InMap(r.forecasts, m)
              THEN << [prediction |-> ValueAt(r.forecasts, m).prediction,
                       confidence |-> ValueAt(r.forecasts, m).confidence,
                       actual |-> ticks[r.tickIndex + 2].value,
                       prevActual |-> r.tickData.value] >>
              ELSE <<>>)
             \o OwnTickSamples(m, k + 1)

\* C30: for every committed TickResult r the tick data is ticks[r.tickIndex],
\* and the samples the scoring engine collects for a model are those of the
\* tick results' own ticks: previous actual r.tickData's value, next actual the
\* value of ticks[r.tickIndex + 1], none from a tick result lacking either.
C30_OwnTickSamples ==
    pc = "done" =>
        /\ \A k \in 1..Len(tickResults) :
              tickResults[k].tickData = ticks[tickResults[k].tickIndex + 1]
        /\ \A m \in ModelSet : statsByModel(ticks, tickResults, m) = OwnTickSamples(m, 1)

\* a finished run with a sample from one tick result and none from another
\* whose previous actual is missing
C30_Witness ==
    /\ pc = "done"
    /\ \E m \in ModelSet :
          /\ Len(OwnTickSamples(m, 1)) > 0
          /\ \E k \in 1..Len(tickResults) :
                InMap(tickResults[k].forecasts, m) /\ tickResults[k].tickData.value = NULL

\* C28: the run eventually returns (or throws) even when a forecaster or judge
\* invocation never settles on its own.
C28_HangCannotStall == <>(pc \in {"done", "thrown"})

\* C31: a run that passed its preconditions does not throw, whatever the judge
\* returned: a stored performance entry whose error is not a number does not
\* make the building of a later judge prompt throw out of runBacktest.
C31_SchemaIncompleteJudgeOutput ==
    pc = "thrown" => PreconditionFails

\* C32: the committed TickResults are a gap-free prefix: the one at position j
\* has tickIndex j. Once a processed tick has committed nothing, every
\* forecaster is permanently failed, and a later tick issues no invocation and
\* commits nothing.
C32_GapFreePrefix ==
    /\ \A k \in 1..Len(tickResults) : tickResults[k].tickIndex = k - 1
    /\ (pc \in {"forecast", "evaluate"} /\ i > Len(tickResults)) =>
          /\ \A m \in ModelSet : MarkedFailed(persistentModelErrors, m)
          /\ \A m \in ModelSet : fcall[m].calls = 0 /\ jcall[m].calls = 0
          /\ \A m \in ModelSet : fcall[m].status \in {"skipped", "none"}
          /\ tickForecasts = <<>>

\* a tick is being processed after one that committed nothing, itself
\* after a committed one
C32_Witness ==
    /\ pc = "forecast"
    /\ Len(tickResults) > 0
    /\ i > Len(tickResults)
    /\ Cardinality(ModelSet) = 2

\* C33: while the loop runs, a forecaster without a permanent error has exactly
\* i entries in its feedback history and i entries in its performance history,
\* at the start of tick i and until the tick's evaluations are recorded; the
\* two histories of every forecaster have the same length at all times. So with
\* feedbackLimit >= 1 the list of past feedback handed to buildForecastPrompt
\* is empty (the case of the "None (first tick)" text) at tick 0 only.
C33_ActiveForecastersHaveFullHistory ==
    /\ \A m \in DOMAIN modelFeedbackHistory :
          Len(modelFeedbackHistory[m]) = Len(modelPerformanceHistory[m])
    /\ pc \in {"forecast", "evaluate"} =>
          \A m \in ModelSet :
             /\ ~MarkedFailed(persistentModelErrors, m) =>
                   /\ Len(modelFeedbackHistory[m]) = i
                   /\ Len(modelPerformanceHistory[m]) = i
             /\ (/\ pc = "forecast"
                 /\ fcall[m].status \notin {"none", "skipped"}
                 /\ config.feedbackLimit >= 1) =>
                   (fcall[m].pastFeedback = <<>> <=> i = 0)

\* tick 2 has started with feedbackLimit 1: one forecaster is active with two
\* entries in each history and is given one feedback, the other has failed
\* with one entry
C33_Witness ==
    \E m \in ModelSet, n \in ModelSet :
        /\ pc = "forecast"
        /\ i = 2
        /\ config.feedbackLimit = 1
        /\ ~MarkedFailed(persistentModelErrors, m)
        /\ Len(modelFeedbackHistory[m]) = 2
        /\ Len(fcall[m].pastFeedback) = 1
        /\ fcall[m].status = "inflight"
        /\ MarkedFailed(persistentModelErrors, n)
        /\ Len(modelFeedbackHistory[n]) = 1

\* the entries of a report's topPerformers that are about forecaster m
TopEntries(report, m) ==
    {k \in 1..Len(report.topPerformers) : report.topPerformers[k].modelId = m}

\* C34: in the report of a finished run every configured forecaster has exactly
\* one entry in topPerformers and excludedModels taken together, and every
\* entry of the two lists is about a configured forecaster.
C34_ExhaustiveDisjointPartition ==
    pc = "done" =>
        /\ \A m \in ModelSet :
              Cardinality(TopEntries(results[1], m))
                 + Cardinality(ExcludedEntries(results[1], m)) = 1
        /\ \A k \in 1..Len(results[1].topPerformers) :
              results[1].topPerformers[k].modelId \in ModelSet
        /\ \A k \in 1..Len(results[1].excludedModels) :
              results[1].excludedModels[k].modelId \in ModelSet

\* a finished run of two forecasters reports one as a top performer and the
\* other in excludedModels
C34_Witness ==
    \E m \in ModelSet, n \in ModelSet :
        /\ pc = "done"
        /\ Cardinality(TopEntries(results[1], m)) = 1
        /\ ExcludedEntries(results[1], m) = {}
        /\ Cardinality(ExcludedEntries(results[1], n)) = 1
        /\ TopEntries(results[1], n) = {}

\* a step inside a phase: a call of the phase settles, backs off or is retried
\* while Promise.all is still awaited
SettleStep == pc \in {"forecast", "evaluate"} /\ pc' = pc /\ i' = i

\* the keys of an object map are in the order in which their forecasters were
\* configured
InConfiguredOrder(map) ==
    \A j \in 1..Len(map) : \A k \in 1..Len(map) :
        j < k => ConfiguredPosition(map[j][1]) < ConfiguredPosition(map[k][1])

\* C35: while a phase's calls are outstanding a step changes the promise of one
\* forecaster only and leaves the histories, the permanent errors, the tick
\* maps, the tick results and the report as they are. They are written in the
\* step that ends the phase, which is taken when no call of the phase is
\* outstanding, keeps what was recorded before and records the outcomes in the
\* configured order of the forecasters: the fulfilled forecasts with the values
\* their calls returned, the new permanent errors, and the evaluations of a
\* committed tick. So what a run returns does not depend on the order in which
\* the calls of a phase settle.
C35_SettlementOrderIndependence ==
    [][ /\ SettleStep =>
              /\ UNCHANGED <<modelFeedbackHistory, modelPerformanceHistory,
                             persistentModelErrors, tickForecasts, tickEvaluations,
                             tickResults, results>>
              /\ \E m \in ModelSet :
                    \A o \in ModelSet \ {m} : fcall'[o] = fcall[o] /\ jcall'[o] = jcall[o]
        /\ (IsForecastBarrier \/ IsEvalBarrier) =>
              /\ \A m \in ModelSet : ~Pending(fcall[m]) /\ ~Pending(jcall[m])
              /\ Len(persistentModelErrors') >= Len(persistentModelErrors)
              /\ SubSeq(persistentModelErrors', 1, Len(persistentModelErrors))
                    = persistentModelErrors
              /\ InConfiguredOrder(SubSeq(persistentModelErrors',
                                          Len(persistentModelErrors) + 1,
                                          Len(persistentModelErrors')))
              /\ Len(tickResults') >= Len(tickResults)
              /\ SubSeq(tickResults', 1, Len(tickResults)) = tickResults
              /\ \A k \in Len(tickResults) + 1..Len(tickResults') :
                    /\ InConfiguredOrder(tickResults'[k].forecasts)
                    /\ InConfiguredOrder(tickResults'[k].evaluations)
                    /\ \A e \in Range(tickResults'[k].evaluations) :
                          e[2] = jcall[e[1]].value[1]
        /\ (IsForecastBarrier /\ pc' = "evaluate") =>
              /\ InConfiguredOrder(tickForecasts')
              /\ {tickForecasts'[k][1] : k \in 1..Len(tickForecasts')}
                    = {m \in ModelSet : fcall[m].status = "fulfilled"}
              /\ \A k \in 1..Len(tickForecasts') :
                    tickForecasts'[k][2] = fcall[tickForecasts'[k][1]].value[1] ]_vars

\* in the evaluation phase of a tick the judge call of the forecaster
\* configured second has failed while the call of the forecaster configured
\* first is still outstanding, and no permanent error is recorded yet
C35_Witness ==
    \E m \in ModelSet, o \in ModelSet :
        /\ pc = "evaluate"
        /\ ConfiguredPosition(m) < ConfiguredPosition(o)
        /\ jcall[m].status = "inflight"
        /\ jcall[o].status = "rejected"
        /\ Len(tickForecasts) = 2
        /\ persistentModelErrors = <<>>

\* every entry of a report's two lists
ReportEntries(report) == Range(report.topPerformers) \cup Range(report.excludedModels)

\* C36: in the report of a finished run the predictions of every entry of
\* topPerformers and excludedModels are at most the number of committed
\* TickResults, which is at most ticks.length - 1 and at most maxPredictions;
\* so predictions <= totalTicks where an entry has totalTicks, and the
\* completionRate of every entry that has one lies between 0 and 100.
C36_PredictionCountsBounded ==
    pc = "done" =>
        /\ Len(tickResults) <= Len(ticks) - 1
        /\ Len(tickResults) <= config.simulationOptions.maxPredictions
        /\ \A e \in ReportEntries(results[1]) :
              /\ e.predictions >= 0
              /\ e.predictions <= Len(tickResults)
              /\ e.predictions <= Len(ticks) - 1
              /\ "totalTicks" \in DOMAIN e =>
                    e.totalTicks = Len(ticks) - 1 /\ e.predictions <= e.totalTicks
              /\ "completionRate" \in DOMAIN e =>
                    /\ e.completionRate.den > 0
                    /\ e.completionRate.num >= 0
                    /\ e.completionRate.num <= 100 * e.completionRate.den

\* a run over 5 ticks capped at 3 predictions has finished with 3 TickResults:
\* one forecaster has a prediction for each of them and a completion rate of
\* 75, the other has fewer predictions
C36_Witness ==
    /\ pc = "done"
    /\ Len(ticks) = 5
    /\ config.simulationOptions.maxPredictions = 3
    /\ Len(tickResults) = 3
    /\ \E e \in ReportEntries(results[1]), f \in ReportEntries(results[1]) :
        /\ e.predictions = 3
        /\ "completionRate" \in DOMAIN e
        /\ e.completionRate.num = 75 * e.completionRate.den
        /\ f.predictions < 3

\* forecaster m was forecast and evaluated on each of the n ticks the run
\* processed (n >= 1), and each of them was committed
SucceededOnEveryTick(m, n) ==
    /\ n >= 1
    /\ Len(tickResults) = n
    /\ \A k \in 1..n :
          /\ InMap(tickResults[k].forecasts, m)
          /\ InMap(tickResults[k].evaluations, m)

====
